---- MODULE Spec2Model ----
(***************************************************************************)
(* simple-http3: the HTTP/3 demonstration server.                          *)
(*                                                                         *)
(* Part 1 (specification Spec): the Router (crates/server/src/router.rs),  *)
(* the per-request task handle_request with its three responders           *)
(* (crates/server/src/server.rs) and the two Stream handlers               *)
(* (crates/server/src/handlers.rs).                                        *)
(*                                                                         *)
(* Part 2 (specifications SpecDatagram, SpecUni, SpecBidi): the            *)
(* WebTransport session fan-in loop and its echo workers                   *)
(* (crates/server/src/webtransport.rs), one specification per kind of      *)
(* traffic the peer sends into the session, SpecStreams for the handing of *)
(* streams to workers, SpecLoop for the ends of the loop, SpecWorkers for  *)
(* the workers past the end of the loop and SpecFair for the loop under    *)
(* fair choice among its arms.                                             *)
(*                                                                         *)
(* Part 3 (specification SpecConn): handle_connection, the dispatcher loop *)
(* of one connection, with the request tasks it spawns and the session it  *)
(* hands the connection to (crates/server/src/server.rs).                  *)
(*                                                                         *)
(* Part 4 (specifications SpecEndpoint, SpecMain): the endpoint accept     *)
(* loops of run (server.rs) and of main (crates/server/src/main.rs).       *)
(*                                                                         *)
(* Every await of the Rust code is one step of the task that runs it; a    *)
(* write on a stream either succeeds or fails, chosen by the environment.  *)
(***************************************************************************)
EXTENDS Integers, Sequences, FiniteSets, TLC

VARIABLES
    routes,     \* Router.routes: the HashMap, as its set of (key, value) entries
    lastReg,    \* history: per path, the handler of the last registration
    replaced,   \* history: kind of the most recent re-registration
    started,    \* run() has wrapped the Router in an Arc and is serving
    task,       \* the request tasks spawned by handle_connection
    stream,     \* per request task: the calls made on its RequestStream
    sess,       \* handle_session: position and local state of the fan-in loop
    net,        \* what the peer has sent into the session and not yet read
    dgram,      \* datagrams read by the loop and send_datagram calls made
    uni,        \* client-opened uni streams and their echo workers (echo_uni)
    replyUni,   \* server-opened reply uni streams: the write_all calls on each
    bidi,       \* client-opened bidi streams and their echo workers (echo_bidi)
    conn,       \* per connection: its task (incoming.await, handle_connection)
    endpoint,   \* the endpoint accept loop of run (server.rs) or main (main.rs)
    app         \* the browser application App (web/src/app.rs)

httpVars == <<routes, lastReg, replaced, started, task, stream>>
wtVars   == <<sess, net, dgram, uni, replyUni, bidi>>
connVars == <<conn, endpoint, app>>
vars     == <<routes, lastReg, replaced, started, task, stream,
              sess, net, dgram, uni, replyUni, bidi, conn, endpoint, app>>

(***************************************************************************)
(* Router                                                                  *)
(***************************************************************************)

\* Paths a registration may use, and paths a request may carry.
RegPaths == {"/health", "/stream/time"}
\* Near misses of "/health": a trailing slash, another case, a prefix, an
\* extension by a segment; "/" is a prefix of every registered path.
NearPaths == {"/health/", "/Health", "/heal", "/health/live"}
ReqPaths == RegPaths \cup NearPaths \cup {"/"}
Methods  == {"GET", "POST"}

RestFns   == {"index", "health", "api_info"}
StreamFns == {"time_stream", "counter_stream"}

\* Option<&Handler>::None
NoHandler == [variant |-> "None", fn |-> "none"]

Rest(f)       == [variant |-> "Rest", fn |-> f]
StreamH(f)    == [variant |-> "Stream", fn |-> f]

\* Router::new
RouterNew == {}

\* The entries of the map stored under key p.
Entries(rt, p) == {e \in rt : e.path = p}

\* HashMap::insert, keeping both the old and the new entry of a key.
HashMapInsertKeepOld(rt, p, h) ==
    rt \cup {[path |-> p, variant |-> h.variant, fn |-> h.fn]}

\* HashMap::insert: the value of an existing key is replaced.
HashMapInsert(rt, p, h) ==
    {e \in rt : e.path # p} \cup {[path |-> p, variant |-> h.variant, fn |-> h.fn]}

\* HashMap::get that also matches a key lacking the path's trailing slash.
RouterGetSloppy(rt, p) ==
    IF \E e \in rt : e.path = p \/ e.path \o "/" = p
    THEN LET e == CHOOSE e \in rt : e.path = p \/ e.path \o "/" = p
         IN  [variant |-> e.variant, fn |-> e.fn]
    ELSE NoHandler

\* HashMap::get that matches a key when the path extends it by a segment.
RouterGetPrefix(rt, p) ==
    IF \E e \in rt, x \in {"", "/", "/live"} : e.path \o x = p
    THEN LET e == CHOOSE e \in rt : \E x \in {"", "/", "/live"} : e.path \o x = p
         IN  [variant |-> e.variant, fn |-> e.fn]
    ELSE NoHandler

\* Router::get: exact lookup of the key.
RouterGet(rt, p) ==
    IF \E e \in rt : e.path = p
    THEN LET e == CHOOSE e \in rt : e.path = p
         IN  [variant |-> e.variant, fn |-> e.fn]
    ELSE NoHandler

\* History bookkeeping of a registration of h under p.
Registered(p, h) ==
    /\ lastReg' = [lastReg EXCEPT ![p] = h]
    /\ replaced' = IF lastReg[p] = NoHandler \/ lastReg[p] = h THEN replaced
                   ELSE IF lastReg[p].variant = h.variant THEN "same" ELSE "mixed"

\* Router::route(path, handler)
Route(p, f) ==
    /\ ~started
    /\ routes' = HashMapInsert(routes, p, Rest(f))
    /\ Registered(p, Rest(f))
    /\ UNCHANGED <<started, task, stream>>
    /\ UNCHANGED wtVars /\ UNCHANGED connVars

\* Router::stream(path, handler)
StreamRoute(p, f) ==
    /\ ~started
    /\ routes' = HashMapInsert(routes, p, StreamH(f))
    /\ Registered(p, StreamH(f))
    /\ UNCHANGED <<started, task, stream>>
    /\ UNCHANGED wtVars /\ UNCHANGED connVars

\* run(config, router): the Router moves into an Arc; no registration after.
Run ==
    /\ ~started
    /\ started' = TRUE
    /\ UNCHANGED <<routes, lastReg, replaced, task, stream>>
    /\ UNCHANGED wtVars /\ UNCHANGED connVars

(***************************************************************************)
(* RestResponse and the REST handlers                                      *)
(***************************************************************************)

RestResponseText(body) == [body |-> body, content_type |-> "text/plain"]
RestResponseJson(body) == [body |-> body, content_type |-> "application/json"]
NoResp == [body |-> "", content_type |-> ""]

index    == RestResponseText("Hello from HTTP/3!")
health   == RestResponseJson("{\"status\": \"healthy\", \"protocol\": \"h3\"}")
api_info == RestResponseJson("{\"name\": \"simple-http3\", \"version\": \"0.1.0\", \"endpoints\": [\"/\", \"/health\", \"/api/info\", \"/stream/time\", \"/stream/counter\"]}")

\* handler(req).await of a Rest handler
CallRest(f) ==
    CASE f = "index"    -> index
      [] f = "health"   -> health
      [] f = "api_info" -> api_info

StatusOK       == 200
StatusNotFound == 404
TimeFrames     == 5
CounterLines   == 10

NotFoundBody == "{\"error\": \"Not Found\"}"

(***************************************************************************)
(* RequestStream: the calls a task makes on its stream, in call order      *)
(***************************************************************************)

NoData == [kind |-> "none", n |-> 0, text |-> ""]
Body(s)       == [kind |-> "body", n |-> 0, text |-> s]
TimeEvent(i)  == [kind |-> "time", n |-> i, text |-> ""]   \* "event: time\ndata: <now>\nid: <i>\n\n"
DoneEvent     == [kind |-> "done", n |-> 0, text |-> "stream complete"]
CountLine(i)  == [kind |-> "count", n |-> i, text |-> ""]  \* {"count": <i>, "timestamp": <now>}\n

\* Response::builder().status(s).header("content-type", ct)[.header("content-length", n)]
\* clen is <<n>> when the header is set and <<>> when it is not.
Response(s, ct, clen, cache) ==
    [op |-> "send_response", status |-> s, ctype |-> ct, clen |-> clen,
     cache |-> cache, data |-> NoData]
SendData(d) ==
    [op |-> "send_data", status |-> 0, ctype |-> "", clen |-> <<>>,
     cache |-> <<>>, data |-> d]
Finish ==
    [op |-> "finish", status |-> 0, ctype |-> "", clen |-> <<>>,
     cache |-> <<>>, data |-> NoData]

\* A call that lands on the stream of the first request task, whoever makes it.
CallFirstStream(r, c, ok) == stream' = [stream EXCEPT ![1] = Append(@, [call |-> c, ok |-> ok])]

\* One call on the stream of task r, with its outcome.
Call(r, c, ok) == stream' = [stream EXCEPT ![r] = Append(@, [call |-> c, ok |-> ok])]

Tasks == {1}

IdleTask == [pc |-> "idle", path |-> "", method |-> "", invoked |-> "none",
             i |-> 0, resp |-> NoResp]

\* tokio::spawn(handle_request(req, stream, &router))
Spawned(p, m) == [IdleTask EXCEPT !.pc = "handle_request", !.path = p, !.method = m]

Ended(r) == task[r].pc \in {"ok", "err"}

\* A request arrives and its task is spawned.
NewRequest(r, p, m) ==
    /\ started
    /\ task[r].pc = "idle" \/ Ended(r)
    /\ task' = [task EXCEPT ![r] = Spawned(p, m)]
    /\ stream' = [stream EXCEPT ![r] = <<>>]
    /\ UNCHANGED <<routes, lastReg, replaced, started>>
    /\ UNCHANGED wtVars /\ UNCHANGED connVars

\* An awaited stream call whose Err is dropped (let _ = ...) instead of returned.
TryIgnoringErr(ok, next) == next

\* The ? operator after an awaited stream call: an Err returns from the task.
Try(ok, next) == IF ok THEN next ELSE "err"

HttpFrame ==
    UNCHANGED <<routes, lastReg, replaced, started>> /\ UNCHANGED wtVars /\ UNCHANGED connVars

\* The responder handle_request runs for the looked-up handler h.
Dispatch(h) ==
    CASE h.variant = "Rest"   -> [invoked |-> h.fn, pc |-> "rest_handler"]
      [] h.variant = "Stream" ->
            [invoked |-> h.fn,
             pc |-> IF h.fn = "time_stream" THEN "ts_send_response"
                    ELSE "cs_send_response"]
      [] h.variant = "None"   -> [invoked |-> "handle_not_found", pc |-> "nf_send_response"]

\* A handle_request that takes the handler out of the map (remove for get).
HandleRequestTakes(r) ==
    /\ task[r].pc = "handle_request"
    /\ LET d == Dispatch(RouterGet(routes, task[r].path))
       IN  task' = [task EXCEPT ![r].invoked = d.invoked, ![r].pc = d.pc]
    /\ routes' = {e \in routes : e.path # task[r].path}
    /\ UNCHANGED <<lastReg, replaced, started, stream>>
    /\ UNCHANGED wtVars /\ UNCHANGED connVars

\* handle_request: router.get(&path) and the match on its result
HandleRequest(r) ==
    /\ task[r].pc = "handle_request"
    /\ LET d == Dispatch(RouterGet(routes, task[r].path))
       IN  task' = [task EXCEPT ![r].invoked = d.invoked, ![r].pc = d.pc]
    /\ UNCHANGED stream
    /\ HttpFrame

(***************************************************************************)
(* handle_rest_request                                                     *)
(***************************************************************************)

\* let resp = handler(req).await
RestHandler(r) ==
    /\ task[r].pc = "rest_handler"
    /\ task' = [task EXCEPT ![r].resp = CallRest(task[r].invoked),
                            ![r].pc = "rest_send_response"]
    /\ UNCHANGED stream
    /\ HttpFrame

\* A response head built without the content-length header.
RestResponseHeadNoLength(resp) ==
    Response(StatusOK, resp.content_type, <<>>, <<>>)

\* The response head handle_rest_request builds from the handler's result.
RestResponseHead(resp) ==
    Response(StatusOK, resp.content_type, <<Len(resp.body)>>, <<>>)

\* stream.send_response(response).await?
RestSendResponse(r) ==
    /\ task[r].pc = "rest_send_response"
    /\ \E ok \in BOOLEAN :
          /\ Call(r, RestResponseHead(task[r].resp), ok)
          /\ task' = [task EXCEPT ![r].pc = Try(ok, "rest_send_data")]
    /\ HttpFrame

\* stream.send_data(Bytes::from(resp.body)).await?
RestSendData(r) ==
    /\ task[r].pc = "rest_send_data"
    /\ \E ok \in BOOLEAN :
          /\ Call(r, SendData(Body(task[r].resp.body)), ok)
          /\ task' = [task EXCEPT ![r].pc = Try(ok, "rest_finish")]
    /\ HttpFrame

\* stream.finish().await?
RestFinish(r) ==
    /\ task[r].pc = "rest_finish"
    /\ \E ok \in BOOLEAN :
          /\ Call(r, Finish, ok)
          /\ task' = [task EXCEPT ![r].pc = Try(ok, "ok")]
    /\ HttpFrame

(***************************************************************************)
(* handle_not_found                                                        *)
(***************************************************************************)

\* The head of handle_not_found with the status of handle_rest_request.
NotFoundHeadStatusOK ==
    Response(StatusOK, "application/json", <<Len(NotFoundBody)>>, <<>>)

\* The response head of handle_not_found.
NotFoundHead ==
    Response(StatusNotFound, "application/json", <<Len(NotFoundBody)>>, <<>>)

NfSendResponse(r) ==
    /\ task[r].pc = "nf_send_response"
    /\ \E ok \in BOOLEAN :
          /\ Call(r, NotFoundHead, ok)
          /\ task' = [task EXCEPT ![r].pc = Try(ok, "nf_send_data")]
    /\ HttpFrame

\* A 404 responder that sends the body again after a failed send_data.
NfSendDataRetries(r) ==
    /\ task[r].pc = "nf_send_data"
    /\ \E ok \in BOOLEAN :
          /\ Call(r, SendData(Body(NotFoundBody)), ok)
          /\ task' = [task EXCEPT ![r].pc = IF ok THEN "nf_finish" ELSE "nf_send_data"]
    /\ HttpFrame

\* stream.send_data(Bytes::from(body)).await?
NfSendData(r) ==
    /\ task[r].pc = "nf_send_data"
    /\ \E ok \in BOOLEAN :
          /\ Call(r, SendData(Body(NotFoundBody)), ok)
          /\ task' = [task EXCEPT ![r].pc = Try(ok, "nf_finish")]
    /\ HttpFrame

NfFinish(r) ==
    /\ task[r].pc = "nf_finish"
    /\ \E ok \in BOOLEAN :
          /\ Call(r, Finish, ok)
          /\ task' = [task EXCEPT ![r].pc = Try(ok, "ok")]
    /\ HttpFrame

(***************************************************************************)
(* time_stream                                                             *)
(***************************************************************************)

TimeHead == Response(StatusOK, "text/event-stream", <<>>, <<"no-cache">>)

\* stream.send_response(response).await?; then the loop starts with i = 1
TsSendResponse(r) ==
    /\ task[r].pc = "ts_send_response"
    /\ \E ok \in BOOLEAN :
          /\ Call(r, TimeHead, ok)
          /\ task' = [task EXCEPT ![r].pc = Try(ok, "ts_send_data"), ![r].i = 1]
    /\ HttpFrame

\* time_stream's loop running one iteration too many (1..=5 written as 0..=5).
TsAfterFrameOffByOne(i) == IF i <= TimeFrames THEN "ts_sleep" ELSE "ts_send_done"

\* Where time_stream goes after frame i was sent: sleep if i < 5, else the loop ends.
TsAfterFrame(i) == IF i < TimeFrames THEN "ts_sleep" ELSE "ts_send_done"

\* stream.send_data(Bytes::from(event)).await? of iteration i
TsSendData(r) ==
    /\ task[r].pc = "ts_send_data"
    /\ \E ok \in BOOLEAN :
          /\ Call(r, SendData(TimeEvent(task[r].i)), ok)
          /\ task' = [task EXCEPT ![r].pc = Try(ok, TsAfterFrame(task[r].i))]
    /\ HttpFrame

\* tokio::time::sleep(1s).await, then the next iteration
TsSleep(r) ==
    /\ task[r].pc = "ts_sleep"
    /\ task' = [task EXCEPT ![r].pc = "ts_send_data", ![r].i = @ + 1]
    /\ UNCHANGED stream
    /\ HttpFrame

\* stream.send_data("event: done ...").await?
TsSendDone(r) ==
    /\ task[r].pc = "ts_send_done"
    /\ \E ok \in BOOLEAN :
          /\ Call(r, SendData(DoneEvent), ok)
          /\ task' = [task EXCEPT ![r].pc = Try(ok, "ts_finish")]
    /\ HttpFrame

TsFinish(r) ==
    /\ task[r].pc = "ts_finish"
    /\ \E ok \in BOOLEAN :
          /\ Call(r, Finish, ok)
          /\ task' = [task EXCEPT ![r].pc = Try(ok, "ok")]
    /\ HttpFrame

(***************************************************************************)
(* counter_stream                                                          *)
(***************************************************************************)

CounterHead == Response(StatusOK, "application/x-ndjson", <<>>, <<>>)

CsSendResponse(r) ==
    /\ task[r].pc = "cs_send_response"
    /\ \E ok \in BOOLEAN :
          /\ Call(r, CounterHead, ok)
          /\ task' = [task EXCEPT ![r].pc = Try(ok, "cs_send_data"), ![r].i = 1]
    /\ HttpFrame

\* counter_stream's loop stopping one line early (1..=10 written as 1..10).
CsAfterLineExclusive(i) == IF i < CounterLines - 1 THEN "cs_sleep" ELSE "cs_finish"

\* Where counter_stream goes after line i was sent: sleep if i < 10, else finish.
CsAfterLine(i) == IF i < CounterLines THEN "cs_sleep" ELSE "cs_finish"

CsSendData(r) ==
    /\ task[r].pc = "cs_send_data"
    /\ \E ok \in BOOLEAN :
          /\ Call(r, SendData(CountLine(task[r].i)), ok)
          /\ task' = [task EXCEPT ![r].pc = Try(ok, CsAfterLine(task[r].i))]
    /\ HttpFrame

\* tokio::time::sleep(500ms).await, then the next iteration
CsSleep(r) ==
    /\ task[r].pc = "cs_sleep"
    /\ task' = [task EXCEPT ![r].pc = "cs_send_data", ![r].i = @ + 1]
    /\ UNCHANGED stream
    /\ HttpFrame

CsFinish(r) ==
    /\ task[r].pc = "cs_finish"
    /\ \E ok \in BOOLEAN :
          /\ Call(r, Finish, ok)
          /\ task' = [task EXCEPT ![r].pc = Try(ok, "ok")]
    /\ HttpFrame

(***************************************************************************)
(* Specification Spec: build a Router, run, serve requests                 *)
(***************************************************************************)

InitHttp ==
    /\ routes = RouterNew
    /\ lastReg = [p \in ReqPaths |-> NoHandler]
    /\ replaced = "none"
    /\ started = FALSE
    /\ task = [r \in Tasks |-> IdleTask]
    /\ stream = [r \in Tasks |-> <<>>]

InitWtIdle ==
    /\ sess = [pc |-> "none"]
    /\ net = <<>>
    /\ dgram = <<>>
    /\ uni = <<>>
    /\ replyUni = <<>>
    /\ bidi = <<>>

\* No connection is modelled: requests arrive as spawned tasks.
InitConnIdle ==
    /\ conn = <<>>
    /\ endpoint = [pc |-> "none"]
    /\ app = <<>>

Init == InitHttp /\ InitWtIdle /\ InitConnIdle

TaskStep(r) ==
    \/ HandleRequest(r)
    \/ RestHandler(r) \/ RestSendResponse(r) \/ RestSendData(r) \/ RestFinish(r)
    \/ NfSendResponse(r) \/ NfSendData(r) \/ NfFinish(r)
    \/ TsSendResponse(r) \/ TsSendData(r) \/ TsSleep(r) \/ TsSendDone(r) \/ TsFinish(r)
    \/ CsSendResponse(r) \/ CsSendData(r) \/ CsSleep(r) \/ CsFinish(r)

Next ==
    \/ \E p \in RegPaths, f \in RestFns : Route(p, f)
    \/ \E p \in RegPaths, f \in StreamFns : StreamRoute(p, f)
    \/ Run
    \/ \E r \in Tasks, p \in ReqPaths, m \in Methods : NewRequest(r, p, m)
    \/ \E r \in Tasks : TaskStep(r)

Spec == Init /\ [][Next]_vars

(***************************************************************************)
(* Properties of the Router and of the request tasks (under Spec)          *)
(***************************************************************************)

\* The calls of task r, and how many of them are calls of operation op.
Ops(r) == [k \in DOMAIN stream[r] |-> stream[r][k].call.op]
Count(r, op) == Cardinality({k \in DOMAIN stream[r] : stream[r][k].call.op = op})
AllOk(r) == \A k \in DOMAIN stream[r] : stream[r][k].ok
\* Every call but the last succeeded, and a task that returned Err made a failed last call.
FailureIsLast(r) ==
    /\ \A k \in DOMAIN stream[r] : k < Len(stream[r]) => stream[r][k].ok
    /\ task[r].pc = "err" => stream[r] # <<>> /\ ~stream[r][Len(stream[r])].ok
    /\ task[r].pc # "err" => AllOk(r)
Resolved(r) == task[r].pc \notin {"idle", "handle_request"}
IsPrefix(s, t) == Len(s) <= Len(t) /\ \A k \in DOMAIN s : s[k] = t[k]

\* C1: Router.get(p) is the handler of the last registration under exactly p,
\* and None for a path never registered; handle_request runs that handler's
\* responder in the first case and the 404 responder in the second.
C1_GetAndDispatch ==
    /\ \A p \in ReqPaths : RouterGet(routes, p) = lastReg[p]
    /\ \A r \in Tasks : Resolved(r) =>
          LET h == lastReg[task[r].path] IN
          /\ h = NoHandler => task[r].invoked = "handle_not_found"
          /\ h # NoHandler => task[r].invoked = h.fn
          /\ stream[r] # <<>> =>
                /\ stream[r][1].call.op = "send_response"
                /\ stream[r][1].call.status = IF h = NoHandler THEN 404 ELSE 200
                /\ h = NoHandler => stream[r][1].call.ctype = "application/json"

\* C1 witness: "/health" is registered, a request for "/health/" got the 404
\* responder and was fully answered.
C1_Witness ==
    /\ lastReg["/health"] # NoHandler
    /\ task[1].path = "/health/" /\ task[1].pc = "ok"
    /\ task[1].invoked = "handle_not_found"
    /\ Len(stream[1]) = 3

\* C2: a registration under an already registered path replaces the entry:
\* afterwards exactly one entry for that path, get returns the new handler
\* with the new variant, entries of other paths unchanged.
C2_Overwrite ==
    [][\A p \in RegPaths :
         (lastReg[p] # NoHandler /\ lastReg'[p] # lastReg[p]) =>
            /\ Cardinality(Entries(routes', p)) = 1
            /\ RouterGet(routes', p) = lastReg'[p]
            /\ RouterGet(routes', p).variant = lastReg'[p].variant
            /\ \A q \in ReqPaths \ {p} : Entries(routes', q) = Entries(routes, q)]_vars

\* C2 witness: a path was re-registered with the other variant, another path
\* is registered too, and the router serves requests.
C2_Witness ==
    /\ replaced = "mixed"
    /\ \A p \in RegPaths : lastReg[p] # NoHandler
    /\ started /\ task[1].pc = "ok" /\ task[1].path \in RegPaths

\* C3: the 404 responder sends, in this order, a response head with status 404,
\* content-type application/json and content-length = length of the body,
\* the fixed body in one send_data, then finish.
C3_NotFoundResponse ==
    \A r \in Tasks : (Resolved(r) /\ task[r].invoked = "handle_not_found") =>
        /\ IsPrefix(Ops(r), <<"send_response", "send_data", "finish">>)
        /\ FailureIsLast(r)
        /\ task[r].pc = "ok" <=> (Len(stream[r]) = 3 /\ AllOk(r))
        /\ Len(stream[r]) >= 1 =>
              /\ stream[r][1].call.status = 404
              /\ stream[r][1].call.ctype = "application/json"
              /\ stream[r][1].call.clen = <<22>>
        /\ Len(stream[r]) >= 2 =>
              /\ stream[r][2].call.data.text = "{\"error\": \"Not Found\"}"
              /\ stream[r][1].call.clen = <<Len(stream[r][2].call.data.text)>>

C3_Witness ==
    /\ task[1].invoked = "handle_not_found" /\ task[1].pc = "ok"
    /\ Len(stream[1]) = 3 /\ AllOk(1)

\* C4 as stated: every ended Rest request made exactly one send_response and
\* exactly one finish, whatever the outcome of the writes.
C4_AsStated ==
    \A r \in Tasks : (Ended(r) /\ task[r].invoked \in RestFns) =>
        Count(r, "send_response") = 1 /\ Count(r, "finish") = 1

\* C4 amended: an ended Rest request made exactly one send_response; it made
\* exactly one finish when send_response and send_data succeeded and no
\* finish when one of them failed; a failed call is the task's last call.
C4_Amended ==
    \A r \in Tasks : (Resolved(r) /\ task[r].invoked \in RestFns) =>
        /\ Count(r, "send_response") <= 1 /\ Count(r, "finish") <= 1
        /\ FailureIsLast(r)
        /\ Ended(r) =>
              /\ Count(r, "send_response") = 1
              /\ Count(r, "finish") =
                    (IF Len(stream[r]) >= 2 /\ stream[r][1].ok /\ stream[r][2].ok
                     THEN 1 ELSE 0)
        /\ task[r].pc = "ok" =>
              Ops(r) = <<"send_response", "send_data", "finish">>

\* C4 witness: a Rest request whose send_data failed ended without finish.
C4_Witness ==
    /\ task[1].invoked \in RestFns /\ task[1].pc = "err"
    /\ Ops(1) = <<"send_response", "send_data">>
    /\ stream[1][1].ok /\ ~stream[1][2].ok

\* C5 as stated: every ended Stream handler made exactly one send_response
\* and exactly one finish, whatever the outcome of the writes.
C5_AsStated ==
    \A r \in Tasks : (Ended(r) /\ task[r].invoked \in StreamFns) =>
        Count(r, "send_response") = 1 /\ Count(r, "finish") = 1

\* C5 amended: an ended Stream handler made exactly one send_response, as its
\* first call; it made exactly one finish, as its last call, when every
\* earlier write succeeded, and no finish when one of them failed.
C5_Amended ==
    \A r \in Tasks : (Resolved(r) /\ task[r].invoked \in StreamFns) =>
        /\ Count(r, "send_response") <= 1 /\ Count(r, "finish") <= 1
        /\ FailureIsLast(r)
        /\ stream[r] # <<>> => stream[r][1].call.op = "send_response"
        /\ \A k \in DOMAIN stream[r] :
              stream[r][k].call.op = "finish" => k = Len(stream[r])
        /\ Ended(r) =>
              /\ Count(r, "send_response") = 1
              /\ Count(r, "finish") =
                    (IF \A k \in DOMAIN stream[r] :
                           stream[r][k].call.op # "finish" => stream[r][k].ok
                     THEN 1 ELSE 0)

\* C5 witness: a Stream handler whose header write failed ended without finish.
C5_Witness ==
    /\ task[1].invoked \in StreamFns /\ task[1].pc = "err"
    /\ Ops(1) = <<"send_response">> /\ ~stream[1][1].ok

\* The data frames task r has sent, in order.
ExpectedTimeOps ==
    <<"send_response", "send_data", "send_data", "send_data", "send_data",
      "send_data", "send_data", "finish">>

\* C6: with all writes succeeding, time_stream makes one send_response, five
\* send_data of "time" frames with ids 1..5 in this order, one send_data of
\* the "done" frame, then finish, and has then returned; whatever it has sent
\* so far is a prefix of this sequence.
C6_TimeStream ==
    \A r \in Tasks : (Resolved(r) /\ task[r].invoked = "time_stream") =>
        /\ IsPrefix(Ops(r), ExpectedTimeOps)
        /\ \A k \in DOMAIN stream[r] :
              /\ (2 <= k /\ k <= 6) =>
                    /\ stream[r][k].call.data.kind = "time"
                    /\ stream[r][k].call.data.n = k - 1
              /\ k = 7 => stream[r][k].call.data.kind = "done"
        /\ (Len(stream[r]) = 8 /\ AllOk(r)) <=> task[r].pc = "ok"
        /\ (AllOk(r) /\ task[r].pc # "ok") => Len(stream[r]) < 8

C6_Witness ==
    /\ task[1].invoked = "time_stream" /\ task[1].pc = "ok"
    /\ Len(stream[1]) = 8 /\ AllOk(1)
    /\ stream[1][6].call.data = TimeEvent(5) /\ stream[1][7].call.data = DoneEvent

\* C7: with all writes succeeding, counter_stream makes one send_response,
\* ten send_data of lines with count 1, 2, ..., 10 in this order, then
\* finish, and has then returned.
C7_CounterStream ==
    \A r \in Tasks : (Resolved(r) /\ task[r].invoked = "counter_stream") =>
        /\ Len(stream[r]) <= 12
        /\ \A k \in DOMAIN stream[r] :
              /\ k = 1 => stream[r][k].call.op = "send_response"
              /\ (2 <= k /\ k <= 11) =>
                    /\ stream[r][k].call.op = "send_data"
                    /\ stream[r][k].call.data.kind = "count"
                    /\ stream[r][k].call.data.n = k - 1
              /\ k = 12 => stream[r][k].call.op = "finish"
        /\ (Len(stream[r]) = 12 /\ AllOk(r)) <=> task[r].pc = "ok"

C7_Witness ==
    /\ task[1].invoked = "counter_stream" /\ task[1].pc = "ok"
    /\ Len(stream[1]) = 12 /\ AllOk(1)
    /\ stream[1][11].call.data = CountLine(10)

\* The paths the Router holds a handler for.
RegisteredPaths == {e.path : e \in routes}

\* The calls of handle_not_found, in order.
NotFoundCalls == <<NotFoundHead, SendData(Body(NotFoundBody)), Finish>>

\* C22: resolution is by equality of the request path with a registered
\* path: get returns a handler exactly for the registered paths, so a path
\* that differs from each of them (by a trailing slash, by case, as a prefix
\* or as an extension of one) resolves to no handler and is answered by the
\* 404 responder, and a registered path never is.
C22_ExactMatch ==
    /\ \A p \in ReqPaths : RouterGet(routes, p) # NoHandler <=> p \in RegisteredPaths
    /\ \A r \in Tasks : Resolved(r) =>
          /\ task[r].path \notin RegisteredPaths <=> task[r].invoked = "handle_not_found"
          /\ task[r].path \notin RegisteredPaths =>
                /\ IsPrefix([k \in DOMAIN stream[r] |-> stream[r][k].call], NotFoundCalls)
                /\ task[r].pc = "ok" => Len(stream[r]) = 3

\* C22 witness: both paths are registered, every near miss of "/health" and
\* "/" resolve to no handler, and a request for "/Health" got the full 404
\* response.
C22_Witness ==
    /\ RegisteredPaths = {"/health", "/stream/time"}
    /\ \A p \in NearPaths \cup {"/"} : RouterGet(routes, p) = NoHandler
    /\ task[1].path = "/Health" /\ task[1].pc = "ok"
    /\ stream[1][1].call.status = 404 /\ Len(stream[1]) = 3

(***************************************************************************)
(* Part 2: the WebTransport session (webtransport.rs)                      *)
(***************************************************************************)

ChunkSize == 64      \* buf.chunks(64)
BufSize   == 4096    \* let mut buf = [0u8; 4096]

\* b"[echo] "
EchoPrefix == <<91, 101, 99, 104, 111, 93, 32>>

\* Bounds of the peer's behaviour.
MaxDgrams     == 3    \* datagrams of the client that arrive
MaxUni        == 2    \* client-opened uni streams
MaxChunks     == 2    \* a uni stream carries up to MaxChunks * ChunkSize + 1 bytes
MaxBidi       == 1    \* client-opened bidi streams
MaxBidiWrites == 3    \* flushed writes of the client, over all its bidi streams

UniIds  == 1..MaxUni
BidiIds == 1..MaxBidi

Min(a, b) == IF a < b THEN a ELSE b

\* The n bytes the client writes on its uni stream s: byte i is (i + s) mod 256,
\* so that no two positions of a chunk and no two streams carry the same bytes.
UniPayload(s, n) == [i \in 1..n |-> (i + s) % 256]

\* Lengths of uni payloads: 0, 1, and around every multiple of the chunk size.
UniLens == {0, 1} \cup {k * ChunkSize + d : k \in 1..MaxChunks, d \in {-1, 0, 1}}
DgPayloads == {<<7>>, <<8, 9>>}
\* The k-th flushed write of the client on bidi stream s: two bytes for the
\* first write and one for the later ones, all different from the bytes of
\* its other writes and of the other streams.
BidiMsg(s, k) == IF k = 1 THEN <<100 * s + 11, 100 * s + 12>> ELSE <<100 * s + 10 * k + 1>>

RECURSIVE Flatten(_)
Flatten(ss) == IF ss = <<>> THEN <<>> ELSE Head(ss) \o Flatten(Tail(ss))

\* The sequence q without its i-th element.
Without(q, i) == SubSeq(q, 1, i - 1) \o SubSeq(q, i + 1, Len(q))

\* workers counts the echo workers spawned for the stream.  sess.running is
\* history: the workers that had not returned when the fan-in loop ended.
NoUni  == [st |-> "none", data |-> <<>>, reply |-> 0, wpc |-> "none",
           buf |-> <<>>, k |-> 0, workers |-> 0, sleeps |-> 0]
NoBidi == [st |-> "none", kind |-> "none", written |-> <<>>, inq |-> <<>>,
           fin |-> FALSE, wpc |-> "none", cur |-> <<>>, reads |-> <<>>, out |-> <<>>,
           workers |-> 0]

InitWt ==
    /\ sess = [pc |-> "open_welcome", welcome |-> "none", wcalls |-> <<>>, cur |-> 0,
               opened |-> 0, endedBy |-> "none", running |-> 0]
    /\ net \in [dg : {<<>>}, closed : {FALSE}, nDg : {0}, nWrites : {0},
                uniLen : {0} \cup UniLens, welcome : {"open"}]
    /\ dgram = [read |-> <<>>, sent |-> <<>>]
    /\ uni = [s \in UniIds |-> NoUni]
    /\ replyUni = [t \in UniIds |-> <<>>]
    /\ bidi = [s \in BidiIds |-> NoBidi]

WtFrame == UNCHANGED httpVars /\ UNCHANGED connVars

(***************************************************************************)
(* The peer                                                                *)
(***************************************************************************)


\* A datagram of the client arrives (a lost one never shows).
PeerSendDatagram(d) ==
    /\ ~net.closed
    /\ net.nDg < MaxDgrams
    /\ net' = [net EXCEPT !.dg = Append(@, d), !.nDg = @ + 1]
    /\ UNCHANGED <<sess, dgram, uni, replyUni, bidi>>
    /\ WtFrame

\* The client opens uni stream s, writes B on it and closes its send side.
PeerOpenUni(s, B) ==
    /\ ~net.closed
    /\ uni[s].st = "none"
    /\ \A q \in UniIds : q < s => uni[q].st # "none"
    /\ uni' = [uni EXCEPT ![s] = [NoUni EXCEPT !.st = "pending", !.data = B]]
    /\ UNCHANGED <<sess, net, dgram, replyUni, bidi>>
    /\ WtFrame

\* The client opens bidi stream s: a WebTransport stream, or an HTTP/3 request.
PeerOpenBidi(s, kind) ==
    /\ ~net.closed
    /\ bidi[s].st = "none"
    /\ \A q \in BidiIds : q < s => bidi[q].st # "none"
    /\ bidi' = [bidi EXCEPT ![s] = [NoBidi EXCEPT !.st = "pending", !.kind = kind]]
    /\ UNCHANGED <<sess, net, dgram, uni, replyUni>>
    /\ WtFrame

\* The client writes and flushes m on its bidi stream s.
PeerWriteBidi(s) ==
    LET m == BidiMsg(s, Len(bidi[s].written) + 1) IN
    /\ ~net.closed
    /\ bidi[s].st \in {"pending", "worker"} /\ bidi[s].kind = "stream"
    /\ ~bidi[s].fin
    /\ net.nWrites < MaxBidiWrites
    /\ bidi' = [bidi EXCEPT ![s].written = Append(@, m), ![s].inq = @ \o m]
    /\ net' = [net EXCEPT !.nWrites = @ + 1]
    /\ UNCHANGED <<sess, dgram, uni, replyUni>>
    /\ WtFrame

\* The client closes the send side of its bidi stream s.
PeerFinBidi(s) ==
    /\ ~net.closed
    /\ bidi[s].st \in {"pending", "worker"} /\ bidi[s].kind = "stream"
    /\ ~bidi[s].fin
    /\ bidi' = [bidi EXCEPT ![s].fin = TRUE]
    /\ UNCHANGED <<sess, net, dgram, uni, replyUni>>
    /\ WtFrame

\* The peer ends its side of the welcome stream: closes its send side (fin)
\* or resets the stream.
PeerEndWelcome(how) ==
    /\ ~net.closed
    /\ sess.welcome # "none"
    /\ net.welcome = "open"
    /\ net' = [net EXCEPT !.welcome = how]
    /\ UNCHANGED <<sess, dgram, uni, replyUni, bidi>>
    /\ WtFrame

\* The connection ends: closed by the peer, or lost.
PeerClose ==
    /\ ~net.closed
    /\ net' = [net EXCEPT !.closed = TRUE]
    /\ UNCHANGED <<sess, dgram, uni, replyUni, bidi>>
    /\ WtFrame

(***************************************************************************)
(* handle_session                                                          *)
(***************************************************************************)

\* The spawned workers of the session that have not returned: send_welcome,
\* echo_uni and echo_bidi tasks.
WelcomeRunning == sess.welcome \in {"write", "shutdown", "read"}
UniRunning(s)  == uni[s].wpc \in {"read", "sleep", "write"}
BidiRunning(s) == bidi[s].wpc \in {"read", "write_prefix", "write_data", "flush"}
Running ==
    Cardinality({s \in UniIds : UniRunning(s)}) + Cardinality({s \in BidiIds : BidiRunning(s)})
    + (IF WelcomeRunning THEN 1 ELSE 0)

\* A handle_session that logs a failed open_bi and enters the loop.
OpenWelcomeErrContinues ==
    /\ sess.pc = "open_welcome"
    /\ \E ok \in BOOLEAN :
          sess' = IF ok THEN [sess EXCEPT !.pc = "select", !.welcome = "write"]
                  ELSE [sess EXCEPT !.pc = "select"]
    /\ UNCHANGED <<net, dgram, uni, replyUni, bidi>>
    /\ WtFrame

\* session.open_bi(session_id).await? and the spawn of send_welcome
OpenWelcome ==
    /\ sess.pc = "open_welcome"
    /\ \E ok \in BOOLEAN :
          sess' = IF ok THEN [sess EXCEPT !.pc = "select", !.welcome = "write"]
                  ELSE [sess EXCEPT !.pc = "err"]
    /\ UNCHANGED <<net, dgram, uni, replyUni, bidi>>
    /\ WtFrame

\* A datagram arm that sends again after a failed send.
SendDatagramWithRetry(payload, ok) ==
    IF ok THEN <<[payload |-> payload, ok |-> TRUE]>>
    ELSE <<[payload |-> payload, ok |-> FALSE], [payload |-> payload, ok |-> TRUE]>>

\* The send_datagram calls of the datagram arm for one datagram read.
SendDatagramCalls(payload, ok) == <<[payload |-> payload, ok |-> ok]>>

\* select arm: read_datagram() = Ok(datagram); send_datagram(payload)
DatagramArm(i) ==
    /\ sess.pc = "select"
    /\ i \in DOMAIN net.dg
    /\ \E ok \in BOOLEAN :
          dgram' = [dgram EXCEPT !.read = Append(@, net.dg[i]),
                                 !.sent = @ \o SendDatagramCalls(net.dg[i], ok)]
    /\ net' = [net EXCEPT !.dg = Without(@, i)]
    /\ UNCHANGED <<sess, uni, replyUni, bidi>>
    /\ WtFrame

\* A datagram arm whose Err branch logs and stays in the loop.
DatagramErrContinues ==
    /\ sess.pc = "select"
    /\ net.closed
    /\ sess' = [sess EXCEPT !.endedBy = "datagram"]
    /\ UNCHANGED <<net, dgram, uni, replyUni, bidi>>
    /\ WtFrame

\* select arm: read_datagram() = Err(e); break
DatagramErr ==
    /\ sess.pc = "select"
    /\ net.closed
    /\ sess' = [sess EXCEPT !.pc = "ok", !.endedBy = "datagram", !.running = Running]
    /\ UNCHANGED <<net, dgram, uni, replyUni, bidi>>
    /\ WtFrame

\* select arm: accept_uni() = Ok(Some((id, recv_stream))), up to open_uni(id).await
AcceptUni(s) ==
    /\ sess.pc = "select"
    /\ uni[s].st = "pending"
    /\ uni' = [uni EXCEPT ![s].st = "accepted"]
    /\ sess' = [sess EXCEPT !.pc = "open_uni", !.cur = s]
    /\ UNCHANGED <<net, dgram, replyUni, bidi>>
    /\ WtFrame

\* A uni arm whose failed open_uni(id) ends the loop.
OpenUniReplyErrBreaks ==
    /\ sess.pc = "open_uni"
    /\ \E ok \in BOOLEAN :
          IF ok
          THEN /\ uni' = [uni EXCEPT ![sess.cur].st = "worker",
                                     ![sess.cur].reply = sess.opened + 1,
                                     ![sess.cur].wpc = "read",
                                     ![sess.cur].workers = @ + 1]
               /\ sess' = [sess EXCEPT !.pc = "select", !.cur = 0, !.opened = @ + 1]
          ELSE /\ uni' = [uni EXCEPT ![sess.cur].st = "dropped"]
               /\ sess' = [sess EXCEPT !.pc = "ok", !.cur = 0, !.endedBy = "uni",
                                       !.running = Running]
    /\ UNCHANGED <<net, dgram, replyUni, bidi>>
    /\ WtFrame

\* open_uni(id).await = Ok(send_stream): spawn echo_uni(send_stream, recv_stream);
\* = Err(e): the accepted stream is dropped
OpenUniReply ==
    /\ sess.pc = "open_uni"
    /\ \E ok \in BOOLEAN :
          IF ok
          THEN /\ uni' = [uni EXCEPT ![sess.cur].st = "worker",
                                     ![sess.cur].reply = sess.opened + 1,
                                     ![sess.cur].wpc = "read",
                                     ![sess.cur].workers = @ + 1]
               /\ sess' = [sess EXCEPT !.pc = "select", !.cur = 0, !.opened = @ + 1]
          ELSE /\ uni' = [uni EXCEPT ![sess.cur].st = "dropped"]
               /\ sess' = [sess EXCEPT !.pc = "select", !.cur = 0]
    /\ UNCHANGED <<net, dgram, replyUni, bidi>>
    /\ WtFrame

\* An end of the loop that aborts the workers the session has spawned.
AcceptUniEndAborts ==
    /\ sess.pc = "select"
    /\ net.closed
    /\ sess' = [sess EXCEPT !.pc = "ok", !.endedBy = "uni", !.running = Running,
                            !.welcome = IF WelcomeRunning THEN "err" ELSE @]
    /\ uni' = [s \in UniIds |-> IF UniRunning(s) THEN [uni[s] EXCEPT !.wpc = "err"] ELSE uni[s]]
    /\ bidi' = [s \in BidiIds |-> IF BidiRunning(s) THEN [bidi[s] EXCEPT !.wpc = "err"]
                                  ELSE bidi[s]]
    /\ UNCHANGED <<net, dgram, replyUni>>
    /\ WtFrame

\* select arm: accept_uni() = Ok(None) or Err(e); break
AcceptUniEnd ==
    /\ sess.pc = "select"
    /\ net.closed
    /\ sess' = [sess EXCEPT !.pc = "ok", !.endedBy = "uni", !.running = Running]
    /\ UNCHANGED <<net, dgram, uni, replyUni, bidi>>
    /\ WtFrame

\* A bidi arm that spawns echo_bidi for both variants of AcceptedBi.
AcceptBiSpawnAlways(s) ==
    /\ sess.pc = "select"
    /\ bidi[s].st = "pending"
    /\ bidi' = [bidi EXCEPT ![s].st = "worker", ![s].wpc = "read", ![s].workers = @ + 1]
    /\ UNCHANGED <<sess, net, dgram, uni, replyUni>>
    /\ WtFrame

\* select arm: accept_bi() = Ok(Some(AcceptedBi::BidiStream(id, stream))): spawn
\* echo_bidi; = Ok(Some(AcceptedBi::Request(req, stream))): drop(stream)
AcceptBi(s) ==
    /\ sess.pc = "select"
    /\ bidi[s].st = "pending"
    /\ bidi' = IF bidi[s].kind = "stream"
               THEN [bidi EXCEPT ![s].st = "worker", ![s].wpc = "read",
                                 ![s].workers = @ + 1]
               ELSE [bidi EXCEPT ![s].st = "dropped"]
    /\ UNCHANGED <<sess, net, dgram, uni, replyUni>>
    /\ WtFrame

\* select arm: accept_bi() = Ok(None) or Err(e); break
AcceptBiEnd ==
    /\ sess.pc = "select"
    /\ net.closed
    /\ sess' = [sess EXCEPT !.pc = "ok", !.endedBy = "bidi", !.running = Running]
    /\ UNCHANGED <<net, dgram, uni, replyUni, bidi>>
    /\ WtFrame

(***************************************************************************)
(* send_welcome                                                            *)
(***************************************************************************)

\* let welcome = b"Welcome to HTTP/3 WebTransport server!"
Welcome == "Welcome to HTTP/3 WebTransport server!"

\* The call send_welcome makes on its stream at each of its positions.
WelcomeCall(pc) ==
    CASE pc = "write"    -> [op |-> "write_all", bytes |-> Welcome]
      [] pc = "shutdown" -> [op |-> "shutdown", bytes |-> ""]
      [] pc = "read"     -> [op |-> "read_to_end", bytes |-> ""]

\* A send_welcome that drains the peer's bytes before it shuts its send side.
WelcomeNextReadFirst(pc) ==
    CASE pc = "write"    -> "read"
      [] pc = "read"     -> "shutdown"
      [] pc = "shutdown" -> "ok"

\* The order of send_welcome: write_all, shutdown, read_to_end, Ok(()).
WelcomeNext(pc) ==
    CASE pc = "write"    -> "shutdown"
      [] pc = "shutdown" -> "read"
      [] pc = "read"     -> "ok"

\* write_all(welcome).await?, shutdown().await?, read_to_end(..).await?
\* read_to_end returns Ok once the peer has closed its send side, and Err
\* when the peer reset the stream or the connection ended.
WelcomeStep ==
    /\ WelcomeRunning
    /\ \E ok \in BOOLEAN :
          /\ sess.welcome = "read" =>
                IF ok THEN net.welcome = "fin" ELSE net.welcome = "reset" \/ net.closed
          /\ sess' = [sess EXCEPT !.welcome = IF ok THEN WelcomeNext(@) ELSE "err",
                                  !.wcalls = Append(@, [call |-> WelcomeCall(sess.welcome),
                                                        ok |-> ok])]
    /\ UNCHANGED <<net, dgram, uni, replyUni, bidi>>
    /\ WtFrame

(***************************************************************************)
(* echo_uni                                                                *)
(***************************************************************************)

NumChunks(buf) == (Len(buf) + ChunkSize - 1) \div ChunkSize

\* chunks_exact(64): the trailing partial chunk is left out.
ChunksExact(buf) ==
    [j \in 1..(Len(buf) \div ChunkSize) |->
        SubSeq(buf, (j - 1) * ChunkSize + 1, j * ChunkSize)]

\* buf.chunks(64): consecutive slices of 64 bytes, the last one shorter when
\* the length is no multiple of 64; no slice for an empty buffer.
Chunks(buf) ==
    [j \in 1..NumChunks(buf) |->
        SubSeq(buf, (j - 1) * ChunkSize + 1, Min(j * ChunkSize, Len(buf)))]

\* An echo that writes the first chunk as soon as it has arrived, while the
\* inbound stream is still being read.
UniReadToEndEchoesEarly(s) ==
    /\ uni[s].wpc = "read"
    /\ Chunks(uni[s].data) # <<>> /\ replyUni[uni[s].reply] = <<>>
    /\ replyUni' = [replyUni EXCEPT ![uni[s].reply] =
                       Append(@, [bytes |-> Chunks(uni[s].data)[1], ok |-> TRUE])]
    /\ UNCHANGED <<sess, net, dgram, uni, bidi>>
    /\ WtFrame

\* recv.read_to_end(&mut buf).await?  then the first iteration of the for loop
UniReadToEnd(s) ==
    /\ uni[s].wpc = "read"
    /\ \E ok \in BOOLEAN :
          uni' = IF ok
                 THEN [uni EXCEPT ![s].buf = uni[s].data, ![s].k = 1,
                                  ![s].wpc = IF Chunks(uni[s].data) = <<>> THEN "ok"
                                             ELSE "sleep"]
                 ELSE [uni EXCEPT ![s].wpc = "err"]
    /\ UNCHANGED <<sess, net, dgram, replyUni, bidi>>
    /\ WtFrame

\* tokio::time::sleep(10ms).await
UniSleep(s) ==
    /\ uni[s].wpc = "sleep"
    /\ uni' = [uni EXCEPT ![s].wpc = "write", ![s].sleeps = @ + 1]
    /\ UNCHANGED <<sess, net, dgram, replyUni, bidi>>
    /\ WtFrame

\* A for loop that sleeps before its first write only.
UniWriteNoDelay(s) ==
    /\ uni[s].wpc = "write"
    /\ \E ok \in BOOLEAN :
          /\ replyUni' = [replyUni EXCEPT ![uni[s].reply] =
                             Append(@, [bytes |-> Chunks(uni[s].buf)[uni[s].k], ok |-> ok])]
          /\ uni' = IF ~ok THEN [uni EXCEPT ![s].wpc = "err"]
                    ELSE IF uni[s].k < Len(Chunks(uni[s].buf))
                         THEN [uni EXCEPT ![s].k = @ + 1]
                         ELSE [uni EXCEPT ![s].wpc = "ok"]
    /\ UNCHANGED <<sess, net, dgram, bidi>>
    /\ WtFrame

\* send.write_all(chunk).await?  then the next iteration, or Ok(())
UniWrite(s) ==
    /\ uni[s].wpc = "write"
    /\ \E ok \in BOOLEAN :
          /\ replyUni' = [replyUni EXCEPT ![uni[s].reply] =
                             Append(@, [bytes |-> Chunks(uni[s].buf)[uni[s].k], ok |-> ok])]
          /\ uni' = IF ~ok THEN [uni EXCEPT ![s].wpc = "err"]
                    ELSE IF uni[s].k < Len(Chunks(uni[s].buf))
                         THEN [uni EXCEPT ![s].k = @ + 1, ![s].wpc = "sleep"]
                         ELSE [uni EXCEPT ![s].wpc = "ok"]
    /\ UNCHANGED <<sess, net, dgram, bidi>>
    /\ WtFrame

(***************************************************************************)
(* echo_bidi                                                               *)
(***************************************************************************)

\* &buf[..n - 1]: the slice misses the last byte read.
ReadSliceShort(inq, n) == SubSeq(inq, 1, n - 1)

\* &buf[..n]: the n bytes the read returned.
ReadSlice(inq, n) == SubSeq(inq, 1, n)

WriteCall(b, ok) == [op |-> "write_all", bytes |-> b, ok |-> ok]
FlushCall(ok)    == [op |-> "flush", bytes |-> <<>>, ok |-> ok]

\* recv.read(&mut buf).await = Ok(n), n > 0: any 1..4096 of the bytes that arrived
BidiRead(s, n) ==
    /\ bidi[s].wpc = "read"
    /\ n \in 1..Min(Len(bidi[s].inq), BufSize)
    /\ bidi' = [bidi EXCEPT ![s].cur = ReadSlice(bidi[s].inq, n),
                            ![s].reads = Append(@, SubSeq(bidi[s].inq, 1, n)),
                            ![s].inq = SubSeq(@, n + 1, Len(@)),
                            ![s].wpc = "write_prefix"]
    /\ UNCHANGED <<sess, net, dgram, uni, replyUni>>
    /\ WtFrame

\* A read loop without the Ok(0) arm: the empty read is echoed like any other.
BidiReadEofEchoes(s) ==
    /\ bidi[s].wpc = "read"
    /\ bidi[s].inq = <<>> /\ bidi[s].fin
    /\ bidi' = [bidi EXCEPT ![s].cur = <<>>, ![s].wpc = "write_prefix"]
    /\ UNCHANGED <<sess, net, dgram, uni, replyUni>>
    /\ WtFrame

\* recv.read(&mut buf).await = Ok(0): the peer closed its send side; break
BidiReadEof(s) ==
    /\ bidi[s].wpc = "read"
    /\ bidi[s].inq = <<>> /\ bidi[s].fin
    /\ bidi' = [bidi EXCEPT ![s].wpc = "ok"]
    /\ UNCHANGED <<sess, net, dgram, uni, replyUni>>
    /\ WtFrame

\* recv.read(&mut buf).await = Err(e); break
BidiReadErr(s) ==
    /\ bidi[s].wpc = "read"
    /\ net.closed
    /\ bidi' = [bidi EXCEPT ![s].wpc = "ok"]
    /\ UNCHANGED <<sess, net, dgram, uni, replyUni>>
    /\ WtFrame

\* send.write_all(b"[echo] ").await?
BidiWritePrefix(s) ==
    /\ bidi[s].wpc = "write_prefix"
    /\ \E ok \in BOOLEAN :
          bidi' = [bidi EXCEPT ![s].out = Append(@, WriteCall(EchoPrefix, ok)),
                               ![s].wpc = Try(ok, "write_data")]
    /\ UNCHANGED <<sess, net, dgram, uni, replyUni>>
    /\ WtFrame

\* An echo that goes back to read without the flush.
BidiWriteDataNoFlush(s) ==
    /\ bidi[s].wpc = "write_data"
    /\ \E ok \in BOOLEAN :
          bidi' = [bidi EXCEPT ![s].out = Append(@, WriteCall(bidi[s].cur, ok)),
                               ![s].wpc = Try(ok, "read")]
    /\ UNCHANGED <<sess, net, dgram, uni, replyUni>>
    /\ WtFrame

\* send.write_all(data).await?
BidiWriteData(s) ==
    /\ bidi[s].wpc = "write_data"
    /\ \E ok \in BOOLEAN :
          bidi' = [bidi EXCEPT ![s].out = Append(@, WriteCall(bidi[s].cur, ok)),
                               ![s].wpc = Try(ok, "flush")]
    /\ UNCHANGED <<sess, net, dgram, uni, replyUni>>
    /\ WtFrame

\* send.flush().await?
BidiFlush(s) ==
    /\ bidi[s].wpc = "flush"
    /\ \E ok \in BOOLEAN :
          bidi' = [bidi EXCEPT ![s].out = Append(@, FlushCall(ok)),
                               ![s].wpc = Try(ok, "read")]
    /\ UNCHANGED <<sess, net, dgram, uni, replyUni>>
    /\ WtFrame

(***************************************************************************)
(* Specifications of one accepted session, by the traffic of its peer      *)
(***************************************************************************)

InitHttpServing ==
    /\ routes = RouterNew
    /\ lastReg = [p \in ReqPaths |-> NoHandler]
    /\ replaced = "none"
    /\ started = TRUE
    /\ task = [r \in Tasks |-> IdleTask]
    /\ stream = [r \in Tasks |-> <<>>]

InitSession == InitHttpServing /\ InitWt /\ InitConnIdle

\* The ends of the fan-in loop, one per source.
LoopEnds == DatagramErr \/ AcceptUniEnd \/ AcceptBiEnd

\* A peer that sends datagrams only.
NextDatagram ==
    \/ \E d \in DgPayloads : PeerSendDatagram(d)
    \/ PeerClose
    \/ \E how \in {"fin", "reset"} : PeerEndWelcome(how)
    \/ OpenWelcome
    \/ WelcomeStep
    \/ \E i \in 1..MaxDgrams : DatagramArm(i)
    \/ LoopEnds

InitDatagram == InitSession /\ net.uniLen = 0

SpecDatagram == InitDatagram /\ [][NextDatagram]_vars

\* A peer that opens uni streams only; every stream of a run carries
\* net.uniLen bytes.
NextUni ==
    \/ \E s \in UniIds : PeerOpenUni(s, UniPayload(s, net.uniLen))
    \/ PeerClose
    \/ OpenWelcome
    \/ \E s \in UniIds : AcceptUni(s)
    \/ OpenUniReply
    \/ LoopEnds
    \/ \E s \in UniIds : UniReadToEnd(s) \/ UniSleep(s) \/ UniWrite(s)

SpecUni == InitSession /\ [][NextUni]_vars

\* A peer that opens bidi streams only.
NextBidi ==
    \/ \E s \in BidiIds, kind \in {"stream", "request"} : PeerOpenBidi(s, kind)
    \/ \E s \in BidiIds : PeerWriteBidi(s)
    \/ \E s \in BidiIds : PeerFinBidi(s)
    \/ PeerClose
    \/ OpenWelcome
    \/ \E s \in BidiIds : AcceptBi(s)
    \/ LoopEnds
    \/ \E s \in BidiIds : \E n \in 1..Min(Len(bidi[s].inq), BufSize) : BidiRead(s, n)
    \/ \E s \in BidiIds :
          \/ BidiReadEof(s) \/ BidiReadErr(s)
          \/ BidiWritePrefix(s) \/ BidiWriteData(s) \/ BidiFlush(s)

InitBidi == InitSession /\ net.uniLen = 0

SpecBidi == InitBidi /\ [][NextBidi]_vars

(***************************************************************************)
(* Properties of the session and of its echo workers                       *)
(***************************************************************************)

\* C8: for every datagram read by the fan-in loop the session has made exactly
\* one send_datagram call, with that datagram's payload, before anything else
\* is read; it sends nothing that was not read and sends nothing twice, also
\* after a failed send; every datagram that arrived is pending or was read once.
C8_DatagramEcho ==
    /\ Len(dgram.sent) = Len(dgram.read)
    /\ \A k \in DOMAIN dgram.sent : dgram.sent[k].payload = dgram.read[k]
    /\ Len(dgram.read) + Len(net.dg) = net.nDg

\* C8 witness: three datagrams were read, the first echo failed and was not
\* repeated, the second succeeded, and payloads differ.
C8_Witness ==
    /\ Len(dgram.read) = 3
    /\ ~dgram.sent[1].ok /\ dgram.sent[2].ok
    /\ dgram.read[1] # dgram.read[2]
    /\ dgram.sent[1].payload = dgram.read[1]

\* The payloads of the data write_all calls of bidi worker s (the second call
\* of every prefix, data, flush triple), in order.
Replies(s) ==
    [j \in 1..((Len(bidi[s].out) + 1) \div 3) |-> bidi[s].out[3 * j - 1].bytes]

\* C9 as stated: the k-th reply of a bidi worker carries exactly the bytes of
\* the client's k-th flushed write.
C9_AsStated ==
    \A s \in BidiIds :
        /\ Len(Replies(s)) <= Len(bidi[s].written)
        /\ \A k \in DOMAIN Replies(s) : Replies(s)[k] = bidi[s].written[k]

\* C9 amended: every read of a bidi worker returns between 1 and 4096
\* consecutive bytes of the inbound byte stream, and yields exactly one reply:
\* write_all("[echo] "), write_all(the bytes of that read), flush, in this
\* order and before the next read; the reads, in order, make up the bytes the
\* client has written, so a flushed write B is answered by the one reply
\* "[echo] " + B exactly when one read returns exactly B.
C9_Amended ==
    \A s \in BidiIds :
        /\ Flatten(bidi[s].reads) \o bidi[s].inq = Flatten(bidi[s].written)
        /\ \A j \in DOMAIN bidi[s].reads :
              Len(bidi[s].reads[j]) >= 1 /\ Len(bidi[s].reads[j]) <= 4096
        /\ Len(bidi[s].out) <= 3 * Len(bidi[s].reads)
        /\ bidi[s].wpc = "read" => Len(bidi[s].out) = 3 * Len(bidi[s].reads)
        /\ bidi[s].wpc \in {"write_prefix", "write_data", "flush"} =>
              Len(bidi[s].out) < 3 * Len(bidi[s].reads)
              /\ Len(bidi[s].out) >= 3 * (Len(bidi[s].reads) - 1)
        /\ \A k \in DOMAIN bidi[s].out :
              /\ k % 3 = 1 => bidi[s].out[k].op = "write_all"
                              /\ bidi[s].out[k].bytes = <<91, 101, 99, 104, 111, 93, 32>>
              /\ k % 3 = 2 => bidi[s].out[k].op = "write_all"
                              /\ bidi[s].out[k].bytes = bidi[s].reads[(k + 1) \div 3]
              /\ k % 3 = 0 => bidi[s].out[k].op = "flush"
              /\ k < Len(bidi[s].out) => bidi[s].out[k].ok

\* C9 witness: two flushed writes of the client were answered by one reply
\* carrying the bytes of both.
C9_Witness ==
    /\ Len(bidi[1].written) = 2
    /\ bidi[1].reads = <<bidi[1].written[1] \o bidi[1].written[2]>>
    /\ Len(bidi[1].out) = 3 /\ bidi[1].out[3].ok
    /\ bidi[1].out[2].bytes = bidi[1].written[1] \o bidi[1].written[2]

\* The chunks written so far on reply stream t.
Written(t)   == [k \in DOMAIN replyUni[t] |-> replyUni[t][k].bytes]

\* C10: a uni echo worker that returned Ok has written, on the reply stream
\* opened for its inbound stream, chunks whose concatenation in write order is
\* exactly the bytes B the client wrote (for B empty: no chunk); what a worker
\* has written so far is a prefix of B; no two workers share a reply stream
\* and no reply stream without a worker carries a write.
C10_UniEcho ==
    /\ \A s \in UniIds : uni[s].st = "worker" =>
          /\ uni[s].reply \in 1..sess.opened
          /\ \A q \in UniIds \ {s} : uni[q].st = "worker" => uni[q].reply # uni[s].reply
          /\ IsPrefix(Flatten(Written(uni[s].reply)), uni[s].data)
          /\ uni[s].wpc = "ok" =>
                /\ Flatten(Written(uni[s].reply)) = uni[s].data
                /\ \A k \in DOMAIN replyUni[uni[s].reply] : replyUni[uni[s].reply][k].ok
    /\ \A t \in UniIds :
          (\A s \in UniIds : uni[s].reply # t) => replyUni[t] = <<>>

\* C10 witness: two streams of 129 bytes, accepted in the other order than
\* opened, each echoed in full in three chunks on its own reply stream.
C10_Witness ==
    /\ net.uniLen = 2 * ChunkSize + 1
    /\ uni[1].wpc = "ok" /\ uni[2].wpc = "ok"
    /\ uni[1].reply = 2 /\ uni[2].reply = 1
    /\ Len(replyUni[1]) = 3 /\ Len(replyUni[2]) = 3
    /\ Flatten(Written(2)) = UniPayload(1, 129)

(***************************************************************************)
(* Part 3: handle_connection, the dispatcher loop of one connection        *)
(* (server.rs)                                                             *)
(***************************************************************************)

\* An inbound unit of the connection: a request stream the peer opened. hdr
\* says whether its header block has arrived, so that resolve_request can
\* complete.
NoUnit == [id |-> 0, method |-> "", protocol |-> "", path |-> "", hdr |-> FALSE]

\* The request heads a peer sends: ordinary requests, a CONNECT without the
\* extended protocol, and the WebTransport CONNECT, to a path no route is
\* registered for and to a registered one.
ConnPaths == {"/health", "/stream/time", "/"}
ReqHeads ==
    {[method |-> "GET", protocol |-> "none", path |-> p] : p \in ConnPaths}
    \cup {[method |-> "CONNECT", protocol |-> "none", path |-> "/health"],
          [method |-> "CONNECT", protocol |-> "webtransport", path |-> "/"],
          [method |-> "CONNECT", protocol |-> "webtransport", path |-> "/health"]}

\* A dispatcher that upgrades every CONNECT, with or without the marker.
IsAnyConnect(u) == u.method = "CONNECT"

\* req.method() == Method::CONNECT && ext.get::<Protocol>() == Some(&Protocol::WEB_TRANSPORT)
IsWebTransportConnect(u) == u.method = "CONNECT" /\ u.protocol = "webtransport"

\* How accept() reports the end of the connection: Ok(None), or an Err whose
\* Debug string the loop classifies.
ErrClasses   == {"Timeout", "ApplicationClose", "Reset", "Other"}
CloseReasons == {"GoAway"} \cup ErrClasses

\* after: how many connections had failed when the endpoint loop accepted this one.
NoConn == [pc |-> "none", inbox |-> <<>>, cur |-> NoUnit, closed |-> "no",
           units |-> 0, accepts |-> 0, acceptErr |-> "none", resolveErrs |-> 0,
           handed |-> FALSE, after |-> 0]

\* The dispatcher loop of connection c is running.
Dispatching(c) == conn[c].pc \in {"accept", "resolve"}
\* handle_connection of connection c has returned.
Returned(c) == conn[c].pc \in {"ok", "err"}

FreeTasks == {r \in DOMAIN task : task[r].pc = "idle"}

\* The request tasks that were spawned and have not returned.
RunningTasks == {r \in DOMAIN task : task[r].pc \notin {"idle", "ok", "err"}}

\* Ordinary requests the peers have opened and no task was spawned for yet.
Waiting ==
    Cardinality({dk \in UNION {{<<d, k>> : k \in DOMAIN conn[d].inbox} : d \in DOMAIN conn} :
                    ~IsWebTransportConnect(conn[dk[1]].inbox[dk[2]])})
    + Cardinality({d \in DOMAIN conn :
                      conn[d].pc = "resolve" /\ ~IsWebTransportConnect(conn[d].cur)})

ConnFrame == UNCHANGED <<routes, lastReg, replaced, started, endpoint, app>>

(***************************************************************************)
(* The peer of a connection                                                *)
(***************************************************************************)

\* The peer opens a request stream; its header block has not arrived yet.
\* Ordinary requests are bounded by the request tasks the model holds. One
\* WebTransport CONNECT reaches the dispatcher; on the connection that was
\* handed over the peer can send further ones.
PeerRequest(c, h) ==
    /\ conn[c].pc \in {"build", "accept", "resolve", "wt_accept", "session",
                       "main_build", "main_accept"}
    /\ conn[c].closed = "no"
    /\ conn[c].units < Cardinality(DOMAIN task) + 1
    /\ IF IsWebTransportConnect(h)
       THEN \/ conn[c].handed
            \/ /\ sess.pc = "none"
               /\ \A d \in DOMAIN conn :
                     /\ d # c => ~conn[d].handed
                     /\ ~IsWebTransportConnect(conn[d].cur)
                     /\ \A k \in DOMAIN conn[d].inbox :
                           ~IsWebTransportConnect(conn[d].inbox[k])
       ELSE Cardinality(FreeTasks) > Waiting
    /\ conn' = [conn EXCEPT ![c].units = @ + 1,
                   ![c].inbox = Append(@, [id |-> conn[c].units + 1, method |-> h.method,
                                           protocol |-> h.protocol, path |-> h.path,
                                           hdr |-> FALSE])]
    /\ UNCHANGED <<task, stream>>
    /\ UNCHANGED wtVars
    /\ ConnFrame

\* The header block of request stream id arrives.
PeerHeaders(c, id) ==
    /\ conn[c].closed = "no"
    /\ \/ /\ conn[c].pc = "resolve" /\ conn[c].cur.id = id /\ ~conn[c].cur.hdr
          /\ conn' = [conn EXCEPT ![c].cur.hdr = TRUE]
       \/ \E k \in DOMAIN conn[c].inbox :
             /\ conn[c].inbox[k].id = id /\ ~conn[c].inbox[k].hdr
             /\ conn' = [conn EXCEPT ![c].inbox[k].hdr = TRUE]
    /\ UNCHANGED <<task, stream>>
    /\ UNCHANGED wtVars
    /\ ConnFrame

\* The connection ends while the dispatcher owns it: the peer says GOAWAY,
\* closes, resets, or the transport declares the idle timeout.
PeerCloseConn(c, why) ==
    /\ conn[c].pc \in {"build", "accept", "resolve", "wt_accept", "main_build", "main_accept"}
    /\ conn[c].closed = "no"
    /\ conn' = [conn EXCEPT ![c].closed = why]
    /\ UNCHANGED <<task, stream>>
    /\ UNCHANGED wtVars
    /\ ConnFrame

(***************************************************************************)
(* handle_connection                                                       *)
(***************************************************************************)

\* The state handle_session starts in.
NewSession == [pc |-> "open_welcome", welcome |-> "none", wcalls |-> <<>>, cur |-> 0,
               opened |-> 0, endedBy |-> "none", running |-> 0]

\* h3::server::builder()...build(h3_quinn::Connection::new(conn)).await?
ConnBuild(c) ==
    /\ conn[c].pc = "build"
    /\ \E ok \in BOOLEAN :
          conn' = [conn EXCEPT ![c].pc = Try(ok, "accept")]
    /\ UNCHANGED <<task, stream>>
    /\ UNCHANGED wtVars
    /\ ConnFrame

\* h3_conn.accept().await = Ok(Some(req_resolver)); the loop goes on to
\* req_resolver.resolve_request().await
ConnAcceptSome(c) ==
    /\ conn[c].pc = "accept"
    /\ conn[c].inbox # <<>>
    /\ conn' = [conn EXCEPT ![c].pc = "resolve", ![c].cur = Head(conn[c].inbox),
                            ![c].inbox = Tail(@), ![c].accepts = @ + 1]
    /\ UNCHANGED <<task, stream>>
    /\ UNCHANGED wtVars
    /\ ConnFrame

\* An Ok(None) arm that goes round the loop again.
ConnAcceptNoneContinues(c) ==
    /\ conn[c].pc = "accept"
    /\ conn[c].closed = "GoAway"
    /\ conn' = [conn EXCEPT ![c].accepts = @ + 1]
    /\ UNCHANGED <<task, stream>>
    /\ UNCHANGED wtVars
    /\ ConnFrame

\* h3_conn.accept().await = Ok(None): break, then Ok(())
ConnAcceptNone(c) ==
    /\ conn[c].pc = "accept"
    /\ conn[c].closed = "GoAway"
    /\ conn' = [conn EXCEPT ![c].pc = "ok", ![c].accepts = @ + 1]
    /\ UNCHANGED <<task, stream>>
    /\ UNCHANGED wtVars
    /\ ConnFrame

\* An Err arm that goes round the loop again for an idle timeout.
AfterAcceptErrRetryTimeout(class) == IF class = "Timeout" THEN "accept" ELSE "ok"

\* The Err(e) arm of the match on accept(): whatever the class, break; the
\* function then returns Ok(()).
AfterAcceptErr(class) == "ok"

\* h3_conn.accept().await = Err(e): classify for the log, break
ConnAcceptErr(c) ==
    /\ conn[c].pc = "accept"
    /\ conn[c].closed \in ErrClasses
    /\ conn' = [conn EXCEPT ![c].pc = AfterAcceptErr(conn[c].closed),
                            ![c].acceptErr = conn[c].closed,
                            ![c].accepts = @ + 1]
    /\ UNCHANGED <<task, stream>>
    /\ UNCHANGED wtVars
    /\ ConnFrame

\* A resolve error that ends the dispatcher loop (break instead of continue).
AfterResolveErrBreak == "ok"

\* Err(e) of resolve_request: error!(..); continue
AfterResolveErr == "accept"

\* resolve_request().await = Err(e): the header block is malformed, or the
\* connection ended before it arrived
ConnResolveErr(c) ==
    /\ conn[c].pc = "resolve"
    /\ conn[c].cur.hdr \/ conn[c].closed # "no"
    /\ conn' = [conn EXCEPT ![c].pc = AfterResolveErr, ![c].cur = NoUnit,
                            ![c].resolveErrs = @ + 1]
    /\ UNCHANGED <<task, stream>>
    /\ UNCHANGED wtVars
    /\ ConnFrame

\* resolve_request().await = Ok((req, stream)) of an ordinary request:
\* tokio::spawn(handle_request(req, stream, &router)), next iteration
ConnSpawn(c, r) ==
    /\ conn[c].pc = "resolve"
    /\ conn[c].cur.hdr
    /\ ~IsWebTransportConnect(conn[c].cur)
    /\ r \in FreeTasks /\ \A q \in FreeTasks : r <= q
    /\ task' = [task EXCEPT ![r] = Spawned(conn[c].cur.path, conn[c].cur.method)]
    /\ stream' = [stream EXCEPT ![r] = <<>>]
    /\ conn' = [conn EXCEPT ![c].pc = "accept", ![c].cur = NoUnit]
    /\ UNCHANGED wtVars
    /\ ConnFrame

\* A hand-over that aborts the request tasks of the connection.
ConnConnectAborts(c) ==
    /\ conn[c].pc = "resolve"
    /\ conn[c].cur.hdr
    /\ IsWebTransportConnect(conn[c].cur)
    /\ conn' = [conn EXCEPT ![c].pc = "wt_accept", ![c].cur = NoUnit, ![c].handed = TRUE]
    /\ task' = [r \in DOMAIN task |->
                   IF r \in RunningTasks THEN [task[r] EXCEPT !.pc = "err"] ELSE task[r]]
    /\ UNCHANGED stream
    /\ UNCHANGED wtVars
    /\ ConnFrame

\* resolve_request().await = Ok((req, stream)) of a WebTransport CONNECT:
\* the loop goes on to WebTransportSession::accept(req, stream, h3_conn).await,
\* which takes the connection
ConnConnect(c) ==
    /\ conn[c].pc = "resolve"
    /\ conn[c].cur.hdr
    /\ IsWebTransportConnect(conn[c].cur)
    /\ conn' = [conn EXCEPT ![c].pc = "wt_accept", ![c].cur = NoUnit, ![c].handed = TRUE]
    /\ UNCHANGED <<task, stream>>
    /\ UNCHANGED wtVars
    /\ ConnFrame

\* A failed session accept after which the dispatcher loop goes on.
ConnWtAcceptErrContinues(c) ==
    /\ conn[c].pc = "wt_accept"
    /\ \E ok \in BOOLEAN :
          /\ ok => conn[c].closed = "no"
          /\ IF ok
             THEN /\ conn' = [conn EXCEPT ![c].pc = "session"]
                  /\ sess' = NewSession
             ELSE /\ conn' = [conn EXCEPT ![c].pc = "accept"]
                  /\ sess' = sess
    /\ UNCHANGED <<task, stream, net, dgram, uni, replyUni, bidi>>
    /\ ConnFrame

\* WebTransportSession::accept(..).await = Ok(session): handle_session(session)
\* starts; = Err(e): error!(..), return Ok(())
ConnWtAccept(c) ==
    /\ conn[c].pc = "wt_accept"
    /\ \E ok \in BOOLEAN :
          /\ ok => conn[c].closed = "no"
          /\ IF ok
             THEN /\ conn' = [conn EXCEPT ![c].pc = "session"]
                  /\ sess' = NewSession
             ELSE /\ conn' = [conn EXCEPT ![c].pc = "ok"]
                  /\ sess' = sess
    /\ UNCHANGED <<task, stream, net, dgram, uni, replyUni, bidi>>
    /\ ConnFrame

\* A session run in a task of its own: handle_connection returns at once.
ConnSessionDetached(c) ==
    /\ conn[c].pc = "session"
    /\ conn' = [conn EXCEPT ![c].pc = "ok"]
    /\ UNCHANGED <<task, stream>>
    /\ UNCHANGED wtVars
    /\ ConnFrame

\* A dispatcher that goes back to accept() when the session has ended.
ConnSessionEndResumes(c) ==
    /\ conn[c].pc = "session"
    /\ sess.pc \in {"ok", "err"}
    /\ conn' = [conn EXCEPT ![c].pc = "accept"]
    /\ UNCHANGED <<task, stream>>
    /\ UNCHANGED wtVars
    /\ ConnFrame

\* handle_session(session).await has returned Ok or Err: return Ok(())
ConnSessionEnd(c) ==
    /\ conn[c].pc = "session"
    /\ sess.pc \in {"ok", "err"}
    /\ conn' = [conn EXCEPT ![c].pc = "ok"]
    /\ UNCHANGED <<task, stream>>
    /\ UNCHANGED wtVars
    /\ ConnFrame

ConnStep(c) ==
    \/ ConnBuild(c)
    \/ ConnAcceptSome(c) \/ ConnAcceptNone(c) \/ ConnAcceptErr(c)
    \/ ConnResolveErr(c) \/ ConnConnect(c) \/ ConnWtAccept(c) \/ ConnSessionEnd(c)
    \/ \E r \in DOMAIN task : ConnSpawn(c, r)

(***************************************************************************)
(* Specification SpecConn: one connection, its dispatcher loop, the        *)
(* request tasks it spawns and the session it hands the connection to      *)
(***************************************************************************)

\* Request tasks of the connection.
ConnTasks == {1, 2}

\* A router as the server is run with: a Rest and a Stream route; "/" is not
\* registered.
ServedRoutes ==
    HashMapInsert(HashMapInsert(RouterNew, "/health", Rest("health")),
                  "/stream/time", StreamH("time_stream"))

InitServed ==
    /\ routes = ServedRoutes
    /\ lastReg = [p \in ReqPaths |-> RouterGet(ServedRoutes, p)]
    /\ replaced = "none"
    /\ started = TRUE
    /\ task = [r \in ConnTasks |-> IdleTask]
    /\ stream = [r \in ConnTasks |-> <<>>]

\* No session yet: handle_session has not been called.
InitNoSession ==
    /\ sess = [NewSession EXCEPT !.pc = "none"]
    /\ net = [dg |-> <<>>, closed |-> FALSE, nDg |-> 0, nWrites |-> 0, uniLen |-> 0,
              welcome |-> "open"]
    /\ dgram = [read |-> <<>>, sent |-> <<>>]
    /\ uni = [s \in UniIds |-> NoUni]
    /\ replyUni = [t \in UniIds |-> <<>>]
    /\ bidi = [s \in BidiIds |-> NoBidi]

\* The connection was accepted by the endpoint; handle_connection starts.
InitConn ==
    /\ InitServed
    /\ InitNoSession
    /\ conn = [c \in {1} |-> [NoConn EXCEPT !.pc = "build"]]
    /\ endpoint = [pc |-> "none"]
    /\ app = <<>>

\* handle_session runs on some connection.
SessionOn == \E c \in DOMAIN conn : conn[c].pc = "session"

NextConn ==
    \/ \E c \in DOMAIN conn, h \in ReqHeads : PeerRequest(c, h)
    \/ \E c \in DOMAIN conn, id \in 1..(Cardinality(DOMAIN task) + 1) : PeerHeaders(c, id)
    \/ \E c \in DOMAIN conn, why \in CloseReasons : PeerCloseConn(c, why)
    \/ \E c \in DOMAIN conn : ConnStep(c)
    \/ \E r \in DOMAIN task : TaskStep(r)
    \/ SessionOn /\ \E s \in BidiIds, kind \in {"stream", "request"} : PeerOpenBidi(s, kind)
    \/ SessionOn /\ PeerClose
    \/ OpenWelcome
    \/ \E s \in BidiIds : AcceptBi(s)
    \/ LoopEnds
    \/ \E s \in BidiIds : BidiReadErr(s)

SpecConn == InitConn /\ [][NextConn]_vars

(***************************************************************************)
(* Properties of the dispatcher and of concurrent requests (under SpecConn)*)
(***************************************************************************)

\* The calls a request for path p is answered with by the router of SpecConn.
ExpectedCalls(p) ==
    CASE p = "/health" ->
            <<Response(200, "application/json", <<39>>, <<>>),
              SendData(Body("{\"status\": \"healthy\", \"protocol\": \"h3\"}")),
              Finish>>
      [] p = "/stream/time" ->
            <<Response(200, "text/event-stream", <<>>, <<"no-cache">>)>>
            \o [i \in 1..5 |-> SendData(TimeEvent(i))]
            \o <<SendData(DoneEvent), Finish>>
      [] OTHER ->
            <<Response(404, "application/json", <<22>>, <<>>),
              SendData(Body("{\"error\": \"Not Found\"}")),
              Finish>>

CallsOf(r) == [k \in DOMAIN stream[r] |-> stream[r][k].call]

\* What holds of the streams of concurrent requests in every state.
OwnResponseOnly ==
    \A r \in DOMAIN task :
        /\ IsPrefix(CallsOf(r), ExpectedCalls(task[r].path))
        /\ task[r].pc \in {"idle", "handle_request"} => stream[r] = <<>>
        /\ task[r].pc = "ok" => CallsOf(r) = ExpectedCalls(task[r].path) /\ AllOk(r)

\* C11: with several requests of one connection in flight, under every
\* interleaving, the stream of each request carries only calls of the response
\* of the handler resolved from its own path (all of them, in order, once its
\* task has returned Ok), and a step that adds a call to the stream of a
\* request is a step of that request's task and touches no other stream.
C11_NoCrossWrites ==
    [][/\ OwnResponseOnly'
       /\ \A r \in DOMAIN task :
             stream'[r] # stream[r] =>
                /\ task[r].pc \notin {"ok", "err"}
                /\ task'[r] # task[r] \/ task[r].pc \in {"ts_send_data", "cs_send_data"}
                /\ \A q \in DOMAIN task \ {r} : stream'[q] = stream[q] /\ task'[q] = task[q]]_vars

\* C11 witness: two requests in flight; the one accepted second ("/health")
\* was answered in full while the first ("/stream/time") is in mid-stream,
\* and the first then completes too.
C11_Witness ==
    /\ task[1].path = "/stream/time" /\ task[2].path = "/health"
    /\ task[2].pc = "ok" /\ Len(stream[2]) = 3
    /\ task[1].pc = "ts_sleep" /\ Len(stream[1]) = 3

(***************************************************************************)
(* Specification SpecStreams: a session whose peer opens uni and bidi      *)
(* streams; the payloads are short, the interest is in who gets a worker   *)
(***************************************************************************)

InitStreams == InitSession /\ net.uniLen <= 1

NextStreams ==
    \/ \E s \in UniIds : PeerOpenUni(s, UniPayload(s, net.uniLen))
    \/ \E s \in BidiIds, kind \in {"stream", "request"} : PeerOpenBidi(s, kind)
    \/ \E s \in BidiIds : PeerFinBidi(s)
    \/ PeerClose
    \/ OpenWelcome
    \/ \E s \in UniIds : AcceptUni(s)
    \/ OpenUniReply
    \/ \E s \in BidiIds : AcceptBi(s)
    \/ LoopEnds
    \/ \E s \in UniIds : UniReadToEnd(s) \/ UniSleep(s) \/ UniWrite(s)
    \/ \E s \in BidiIds : BidiReadEof(s) \/ BidiReadErr(s)

SpecStreams == InitStreams /\ [][NextStreams]_vars

\* The fan-in loop has accepted the stream and finished the arm's iteration.
UniHandled(s)  == uni[s].st \in {"worker", "dropped"}
BidiHandled(s) == bidi[s].st \in {"worker", "dropped"}

\* C12 as stated: every client-opened uni or bidi sub-stream the loop has
\* accepted was handed to exactly one echo worker.
C12_AsStated ==
    /\ \A s \in UniIds : UniHandled(s) => uni[s].workers = 1
    /\ \A s \in BidiIds : (BidiHandled(s) /\ bidi[s].kind = "stream") => bidi[s].workers = 1

\* C12 amended: no accepted stream ever has more than one echo worker; an
\* accepted bidi stream (AcceptedBi::BidiStream) has exactly one; an accepted
\* uni stream has exactly one when open_uni for its reply stream succeeded and
\* none, being dropped, when open_uni failed; an HTTP request surfaced by
\* accept_bi has none; a stream not yet accepted has none.
C12_Amended ==
    /\ \A s \in UniIds :
          /\ uni[s].workers <= 1
          /\ uni[s].st = "worker" <=> uni[s].workers = 1
          /\ uni[s].workers = 1 <=> uni[s].wpc # "none"
          /\ uni[s].st \in {"none", "pending", "accepted", "dropped"} => uni[s].workers = 0
    /\ \A s \in BidiIds :
          /\ bidi[s].workers <= 1
          /\ BidiHandled(s) =>
                bidi[s].workers = (IF bidi[s].kind = "stream" THEN 1 ELSE 0)
          /\ bidi[s].workers = 1 <=> bidi[s].wpc # "none"
          /\ bidi[s].st \in {"none", "pending"} => bidi[s].workers = 0

\* C12 witness: of two accepted uni streams one lost its worker to a failed
\* open_uni and the other got one; an accepted bidi stream got one.
C12_Witness ==
    /\ uni[1].st = "dropped" /\ uni[1].workers = 0
    /\ uni[2].st = "worker" /\ uni[2].workers = 1
    /\ bidi[1].st = "worker" /\ bidi[1].kind = "stream" /\ bidi[1].workers = 1

\* The fan-in loop of the session is running (handle_session is in its loop).
LoopRunning == sess.pc \in {"select", "open_uni"}

\* C13: the session's fan-in loop runs only inside handle_connection of its
\* connection: it has not started while the connection is being built or the
\* dispatcher still owns it, it runs only after the WebTransport CONNECT was
\* accepted on the built connection, and handle_connection has not returned
\* while handle_session is in its loop or about to enter it.
C13_SessionWithinConnection ==
    \A c \in DOMAIN conn :
        /\ conn[c].pc \in {"none", "build", "accept", "resolve", "wt_accept"} => sess.pc = "none"
        /\ sess.pc # "none" => conn[c].handed /\ conn[c].accepts >= 1
        /\ (LoopRunning \/ sess.pc = "open_welcome") => conn[c].pc = "session"
        /\ Returned(c) => sess.pc \in {"none", "ok", "err"}

\* C13 witness: the loop ended on a closed source, then handle_connection
\* returned; an echo worker spawned by the loop holds its stream.
C13_Witness ==
    /\ conn[1].pc = "ok" /\ conn[1].handed
    /\ sess.pc = "ok" /\ sess.endedBy = "uni"
    /\ bidi[1].workers = 1

\* C14: once the connection was handed over on a WebTransport CONNECT, the
\* dispatcher makes no accept call on it and no request task is spawned, so
\* no later request is looked up in the Router or answered by a responder;
\* an HTTP request surfaced in the session by accept_bi is dropped, without
\* any task or worker.
C14_NoDispatchAfterHandover ==
    [][\A c \in DOMAIN conn : conn[c].handed =>
          /\ conn'[c].handed
          /\ conn'[c].accepts = conn[c].accepts
          /\ ~Dispatching(c)'
          /\ \A r \in DOMAIN task : task[r].pc = "idle" => task'[r].pc = "idle"
          /\ \A s \in BidiIds : bidi'[s].kind = "request" =>
                bidi'[s].workers = 0 /\ bidi'[s].wpc = "none"]_vars

\* C14 witness: after the handover a request with its header block waits on
\* the connection and is not accepted, a request surfaced in the session was
\* dropped, and a request task is still free.
C14_Witness ==
    /\ conn[1].handed /\ conn[1].pc = "session" /\ sess.pc = "select"
    /\ conn[1].inbox # <<>> /\ conn[1].inbox[1].hdr
    /\ conn[1].inbox[1].id > conn[1].accepts
    /\ bidi[1].kind = "request" /\ bidi[1].st = "dropped"
    /\ FreeTasks # {}

\* C15 as stated: the dispatcher never waits on one request: while its loop
\* runs and an inbound unit waits to be accepted, it is not held by a
\* request whose resolution has not completed.
C15_AsStated ==
    \A c \in DOMAIN conn :
        ~(/\ conn[c].pc = "resolve"
          /\ ~conn[c].cur.hdr /\ conn[c].closed = "no"
          /\ \E k \in DOMAIN conn[c].inbox : conn[c].inbox[k].hdr)

\* C16: a failure confined to one request leaves the rest alone: the step
\* in which a request task fails changes neither the dispatcher nor any
\* other task or stream, and the step in which a resolution fails puts the
\* dispatcher back at accept and changes no task and no stream.
C16_FailureIsolated ==
    [][/\ \A r \in DOMAIN task : (task'[r].pc = "err" /\ task[r].pc # "err") =>
             /\ conn' = conn
             /\ \A q \in DOMAIN task \ {r} : task'[q] = task[q] /\ stream'[q] = stream[q]
       /\ \A c \in DOMAIN conn : conn'[c].resolveErrs # conn[c].resolveErrs =>
             /\ conn'[c].pc = "accept"
             /\ conn'[c].inbox = conn[c].inbox
             /\ task' = task /\ stream' = stream]_vars

\* C16 witness: the first request's task failed on a write and a resolution
\* failed; the request accepted after both was answered in full, and the
\* dispatcher is at accept.
C16_Witness ==
    /\ task[1].pc = "err" /\ conn[1].resolveErrs = 1
    /\ conn[1].accepts = 3 /\ conn[1].pc = "accept"
    /\ task[2].pc = "ok" /\ task[2].path = "/stream/time"
    /\ CallsOf(2) = ExpectedCalls("/stream/time") /\ AllOk(2)

\* C17: an error returned by accept, of whatever class, ends the dispatcher
\* loop: from then on the loop is not running and no accept call is made.
C17_AcceptErrorEndsLoop ==
    [][\A c \in DOMAIN conn : conn'[c].acceptErr # "none" =>
          /\ ~Dispatching(c)'
          /\ Returned(c)'
          /\ conn[c].acceptErr # "none" =>
                conn'[c].accepts = conn[c].accepts /\ conn'[c].acceptErr = conn[c].acceptErr]_vars

\* C17 witness: accept reported an idle timeout while a request with its
\* header block was waiting; the loop ended and the request was not accepted.
C17_Witness ==
    /\ conn[1].acceptErr = "Timeout" /\ conn[1].pc = "ok"
    /\ conn[1].inbox # <<>> /\ conn[1].inbox[1].hdr
    /\ conn[1].accepts = 2

(***************************************************************************)
(* Part 4: the endpoint accept loops: run (server.rs) and main (main.rs)   *)
(***************************************************************************)

\* The endpoint of binary bin, listening; cur is the connection whose
\* handshake the loop itself awaits (main only).
Listening(bin) == [pc |-> "accept", bin |-> bin, closed |-> FALSE, accepted |-> 0, cur |-> 0]

\* Connections whose task has ended in a failure.
FailedConns == {c \in DOMAIN conn : conn[c].pc \in {"failed", "err", "panic"}}

\* The accept loop is running.
Accepting == endpoint.pc \in {"accept", "handshake"}

EndpointFrame ==
    /\ UNCHANGED <<routes, lastReg, replaced, started, task, stream, app>>
    /\ UNCHANGED wtVars

\* A client starts a connection to the endpoint.
PeerConnect(c) ==
    /\ Accepting /\ ~endpoint.closed
    /\ conn[c].pc = "none"
    /\ \A d \in DOMAIN conn : d < c => conn[d].pc # "none"
    /\ conn' = [conn EXCEPT ![c].pc = "incoming"]
    /\ UNCHANGED endpoint
    /\ EndpointFrame

\* The endpoint is closed: accept() will yield None.
EndpointClose ==
    /\ Accepting /\ ~endpoint.closed
    /\ endpoint' = [endpoint EXCEPT !.closed = TRUE]
    /\ UNCHANGED conn
    /\ EndpointFrame

\* run: endpoint.accept().await = Some(incoming); tokio::spawn of the
\* connection's task; the loop is back at accept
RunAccept(c) ==
    /\ endpoint.bin = "run" /\ endpoint.pc = "accept"
    /\ conn[c].pc = "incoming"
    /\ \A d \in DOMAIN conn : d < c => conn[d].pc # "incoming"
    /\ conn' = [conn EXCEPT ![c].pc = "handshake", ![c].after = Cardinality(FailedConns)]
    /\ endpoint' = [endpoint EXCEPT !.accepted = @ + 1]
    /\ EndpointFrame

\* endpoint.accept().await = None: the while let ends, Ok(())
AcceptNone ==
    /\ endpoint.pc = "accept"
    /\ endpoint.closed
    /\ endpoint' = [endpoint EXCEPT !.pc = "ok"]
    /\ UNCHANGED conn
    /\ EndpointFrame

\* A failed handshake that takes the accept loop down with it.
IncomingErrEndsLoop(pc) == "err"

\* run, Err arm of incoming.await: error!(..) inside the spawned task; the
\* accept loop is where it was.
IncomingErrInTask(pc) == pc

\* run, in the spawned task: incoming.await = Ok(conn): handle_connection
\* starts; = Err(e): logged, the task ends
ConnHandshake(c) ==
    /\ endpoint.bin = "run"
    /\ conn[c].pc = "handshake"
    /\ \E ok \in BOOLEAN :
          IF ok
          THEN /\ conn' = [conn EXCEPT ![c].pc = "build"]
               /\ UNCHANGED endpoint
          ELSE /\ conn' = [conn EXCEPT ![c].pc = "failed"]
               /\ endpoint' = [endpoint EXCEPT !.pc = IncomingErrInTask(@)]
    /\ EndpointFrame

(***************************************************************************)
(* Specification SpecEndpoint: run's accept loop and the connections it    *)
(* spawns                                                                  *)
(***************************************************************************)

EndpointConns == {1, 2}
EndpointTasks == {1}
\* What the clients of this specification send and how their connections end.
EndpointHeads ==
    {h \in ReqHeads : (IsWebTransportConnect(h) /\ h.path = "/")
                       \/ (h.method = "GET" /\ h.path = "/health")}
EndpointCloses == {"GoAway", "Reset"}

InitEndpoint ==
    /\ routes = ServedRoutes
    /\ lastReg = [p \in ReqPaths |-> RouterGet(ServedRoutes, p)]
    /\ replaced = "none"
    /\ started = TRUE
    /\ task = [r \in EndpointTasks |-> IdleTask]
    /\ stream = [r \in EndpointTasks |-> <<>>]
    /\ InitNoSession
    /\ conn = [c \in EndpointConns |-> NoConn]
    /\ endpoint = Listening("run")
    /\ app = <<>>

NextEndpoint ==
    \/ \E c \in DOMAIN conn : PeerConnect(c)
    \/ EndpointClose
    \/ \E c \in DOMAIN conn : RunAccept(c)
    \/ AcceptNone
    \/ \E c \in DOMAIN conn : ConnHandshake(c)
    \/ \E c \in DOMAIN conn, h \in EndpointHeads : PeerRequest(c, h)
    \/ \E c \in DOMAIN conn, id \in 1..(Cardinality(DOMAIN task) + 1) : PeerHeaders(c, id)
    \/ \E c \in DOMAIN conn, why \in EndpointCloses : PeerCloseConn(c, why)
    \/ \E c \in DOMAIN conn : ConnStep(c)
    \/ \E r \in DOMAIN task : TaskStep(r)
    \/ SessionOn /\ PeerClose
    \/ OpenWelcome
    \/ LoopEnds

SpecEndpoint == InitEndpoint /\ [][NextEndpoint]_vars

\* C18: in run, no failure of a single connection ends the accept loop: the
\* step in which a handshake fails, handle_connection returns an error, a
\* session ends in error or a request task fails leaves the loop as it was;
\* the loop leaves accept only when accept yields None, and never with an
\* error.
C18_RunKeepsAccepting ==
    [][/\ endpoint'.pc # "err"
       /\ endpoint'.pc # endpoint.pc => endpoint.closed /\ endpoint'.pc = "ok"
       /\ \A c \in DOMAIN conn :
             (c \in FailedConns' /\ c \notin FailedConns) => endpoint' = endpoint
       /\ (sess'.pc = "err" /\ sess.pc # "err") => endpoint' = endpoint
       /\ \A r \in DOMAIN task :
             (task'[r].pc = "err" /\ task[r].pc # "err") => endpoint' = endpoint]_vars

\* C18 witness: the first connection failed its handshake; the second was
\* accepted after that failure, its request was answered in full, and the
\* loop is at accept.
C18_Witness ==
    /\ conn[1].pc = "failed"
    /\ conn[2].after = 1 /\ conn[2].accepts = 1 /\ conn[2].pc = "accept"
    /\ task[1].pc = "ok" /\ Len(stream[1]) = 3
    /\ endpoint.pc = "accept" /\ endpoint.accepted = 2

(***************************************************************************)
(* main.rs: the accept loop of main, its handle_connection and its         *)
(* handle_request                                                          *)
(***************************************************************************)

\* main has not returned: the runtime that drives the spawned tasks lives.
MainAlive == endpoint.bin = "main" /\ Accepting

\* main: endpoint.accept().await = Some(conn); the loop goes on to conn.await?
MainAccept(c) ==
    /\ endpoint.bin = "main" /\ endpoint.pc = "accept"
    /\ conn[c].pc = "incoming"
    /\ \A d \in DOMAIN conn : d < c => conn[d].pc # "incoming"
    /\ conn' = [conn EXCEPT ![c].pc = "handshake", ![c].after = Cardinality(FailedConns)]
    /\ endpoint' = [endpoint EXCEPT !.pc = "handshake", !.cur = c, !.accepted = @ + 1]
    /\ EndpointFrame

\* main: let conn = conn.await?; then tokio::spawn(handle_connection(conn))
\* and the next iteration
MainHandshake ==
    /\ endpoint.bin = "main" /\ endpoint.pc = "handshake"
    /\ \E ok \in BOOLEAN :
          /\ conn' = [conn EXCEPT ![endpoint.cur].pc = IF ok THEN "main_build" ELSE "failed"]
          /\ endpoint' = [endpoint EXCEPT !.pc = Try(ok, "accept"), !.cur = 0]
    /\ EndpointFrame

MainFrame ==
    UNCHANGED <<routes, lastReg, replaced, started, endpoint, app>> /\ UNCHANGED wtVars

\* h3::server::Connection::new(..).await.unwrap(): a failure panics the task
MainConnBuild(c) ==
    /\ MainAlive
    /\ conn[c].pc = "main_build"
    /\ \E ok \in BOOLEAN :
          conn' = [conn EXCEPT ![c].pc = IF ok THEN "main_accept" ELSE "panic"]
    /\ UNCHANGED <<task, stream>>
    /\ MainFrame

\* h3_conn.accept().await = Ok(Some(req_resolver)): tokio::spawn of the
\* request's task, which resolves the request itself
MainConnAcceptSome(c, r) ==
    /\ MainAlive
    /\ conn[c].pc = "main_accept"
    /\ conn[c].inbox # <<>>
    /\ r \in FreeTasks /\ \A q \in FreeTasks : r <= q
    /\ task' = [task EXCEPT ![r] = [IdleTask EXCEPT !.pc = "main_resolve",
                                           !.path = Head(conn[c].inbox).path,
                                           !.method = Head(conn[c].inbox).method]]
    /\ stream' = [stream EXCEPT ![r] = <<>>]
    /\ conn' = [conn EXCEPT ![c].inbox = Tail(@), ![c].accepts = @ + 1]
    /\ MainFrame

\* h3_conn.accept().await = Ok(None) or Err(e): break, Ok(())
MainConnAcceptEnd(c) ==
    /\ MainAlive
    /\ conn[c].pc = "main_accept"
    /\ conn[c].closed # "no"
    /\ conn' = [conn EXCEPT ![c].pc = "ok", ![c].accepts = @ + 1,
                            ![c].acceptErr = IF conn[c].closed = "GoAway" THEN "none"
                                             ELSE conn[c].closed]
    /\ UNCHANGED <<task, stream>>
    /\ MainFrame

\* The body main's handle_request answers a path with.
MainBody(p) ==
    CASE p = "/"       -> "hello from http3"
      [] p = "/test"   -> "hello from http3 test endpoint"
      [] p = "/health" -> "hello from http3 health check"
      [] OTHER         -> "hello from http3 - unknown endpoint"

MainHead == Response(StatusOK, "text/plain", <<>>, <<>>)

\* req_resolver.resolve_request().await in the request's task; Err: return
MainResolve(r) ==
    /\ MainAlive
    /\ task[r].pc = "main_resolve"
    /\ \E ok \in BOOLEAN :
          task' = [task EXCEPT ![r].pc = Try(ok, "main_send_response"),
                                  ![r].invoked = IF ok THEN "main_handle_request" ELSE "none"]
    /\ UNCHANGED <<stream, conn>>
    /\ MainFrame

MainSendResponse(r) ==
    /\ MainAlive
    /\ task[r].pc = "main_send_response"
    /\ \E ok \in BOOLEAN :
          /\ Call(r, MainHead, ok)
          /\ task' = [task EXCEPT ![r].pc = Try(ok, "main_send_data")]
    /\ UNCHANGED conn
    /\ MainFrame

MainSendData(r) ==
    /\ MainAlive
    /\ task[r].pc = "main_send_data"
    /\ \E ok \in BOOLEAN :
          /\ Call(r, SendData(Body(MainBody(task[r].path))), ok)
          /\ task' = [task EXCEPT ![r].pc = Try(ok, "main_finish")]
    /\ UNCHANGED conn
    /\ MainFrame

MainFinish(r) ==
    /\ MainAlive
    /\ task[r].pc = "main_finish"
    /\ \E ok \in BOOLEAN :
          /\ Call(r, Finish, ok)
          /\ task' = [task EXCEPT ![r].pc = Try(ok, "ok")]
    /\ UNCHANGED conn
    /\ MainFrame

(***************************************************************************)
(* Specification SpecMain: the server binary of main.rs                    *)
(***************************************************************************)

MainConns == {1, 2}
MainTasks == {1}
\* main.rs knows no WebTransport: every request is answered by handle_request.
MainHeads == {h \in ReqHeads : ~IsWebTransportConnect(h)}

InitMain ==
    /\ routes = RouterNew
    /\ lastReg = [p \in ReqPaths |-> NoHandler]
    /\ replaced = "none"
    /\ started = FALSE
    /\ task = [r \in MainTasks |-> IdleTask]
    /\ stream = [r \in MainTasks |-> <<>>]
    /\ InitNoSession
    /\ conn = [c \in MainConns |-> NoConn]
    /\ endpoint = Listening("main")
    /\ app = <<>>

NextMain ==
    \/ \E c \in DOMAIN conn : PeerConnect(c)
    \/ EndpointClose
    \/ \E c \in DOMAIN conn : MainAccept(c)
    \/ MainHandshake
    \/ AcceptNone
    \/ \E c \in DOMAIN conn, h \in MainHeads : PeerRequest(c, h)
    \/ \E c \in DOMAIN conn, why \in EndpointCloses : PeerCloseConn(c, why)
    \/ \E c \in DOMAIN conn : MainConnBuild(c)
    \/ \E c \in DOMAIN conn, r \in DOMAIN task : MainConnAcceptSome(c, r)
    \/ \E c \in DOMAIN conn : MainConnAcceptEnd(c)
    \/ \E r \in DOMAIN task : MainResolve(r)
    \/ \E r \in DOMAIN task : MainSendResponse(r)
    \/ \E r \in DOMAIN task : MainSendData(r)
    \/ \E r \in DOMAIN task : MainFinish(r)

SpecMain == InitMain /\ [][NextMain]_vars

\* C19 as stated: in main, a connection that failed while being established
\* has not made main return: the accept loop is still running, or has ended
\* because accept yielded None.
C19_AsStated ==
    (\E c \in DOMAIN conn : conn[c].pc = "failed") => endpoint.pc # "err"

(***************************************************************************)
(* Specification SpecLoop: a session whose peer sends on all three         *)
(* sources of the fan-in loop; the uni streams are empty                   *)
(***************************************************************************)

InitLoop == InitSession /\ net.uniLen = 0

NextLoop ==
    \/ \E d \in DgPayloads : PeerSendDatagram(d)
    \/ \E s \in UniIds : PeerOpenUni(s, UniPayload(s, net.uniLen))
    \/ \E s \in BidiIds, kind \in {"stream", "request"} : PeerOpenBidi(s, kind)
    \/ PeerClose
    \/ OpenWelcome
    \/ \E i \in 1..MaxDgrams : DatagramArm(i)
    \/ \E s \in UniIds : AcceptUni(s)
    \/ OpenUniReply
    \/ \E s \in BidiIds : AcceptBi(s)
    \/ DatagramErr
    \/ AcceptUniEnd
    \/ AcceptBiEnd
    \/ \E s \in UniIds : UniReadToEnd(s)
    \/ \E s \in BidiIds : BidiReadErr(s)

SpecLoop == InitLoop /\ [][NextLoop]_vars

\* C20: the fan-in loop ends exactly in a step in which one of its three
\* sources reports its end (read_datagram an error, accept_uni or accept_bi
\* None or an error) and for no other reason: that step handles no event,
\* and after it the loop reads no datagram, accepts no stream, opens no
\* reply stream and spawns no worker.
C20_LoopEnd ==
    [][/\ (sess.endedBy # "none" <=> sess.pc = "ok")'
       /\ (LoopRunning /\ ~LoopRunning') =>
             /\ sess.pc = "select" /\ sess'.pc = "ok"
             /\ sess'.endedBy \in {"datagram", "uni", "bidi"}
             /\ net.closed
             /\ dgram' = dgram /\ uni' = uni /\ bidi' = bidi /\ replyUni' = replyUni
       /\ sess.pc = "ok" =>
             /\ sess' = sess /\ dgram' = dgram /\ net' = net
             /\ \A s \in UniIds : uni'[s].st = uni[s].st /\ uni'[s].workers = uni[s].workers
             /\ \A s \in BidiIds : bidi'[s].st = bidi[s].st /\ bidi'[s].workers = bidi[s].workers]_vars

\* C20 witness: the loop handled a datagram and a stream, then ended on
\* accept_bi reporting the end, leaving a datagram unread and a uni stream
\* unaccepted.
C20_Witness ==
    /\ sess.pc = "ok" /\ sess.endedBy = "bidi"
    /\ Len(dgram.read) = 1 /\ net.dg # <<>>
    /\ uni[1].st = "worker" /\ uni[2].st = "pending"

(***************************************************************************)
(* Specification SpecWorkers: a session with its three kinds of spawned    *)
(* workers (send_welcome, echo_uni, echo_bidi), followed past the end of   *)
(* the fan-in loop; uni streams carry one full chunk and one more byte     *)
(***************************************************************************)

InitWorkers == InitSession /\ net.uniLen = ChunkSize + 1

UniStep(s) == UniReadToEnd(s) \/ UniSleep(s) \/ UniWrite(s)

BidiStep(s) ==
    \/ \E n \in 1..Min(Len(bidi[s].inq), BufSize) : BidiRead(s, n)
    \/ BidiReadEof(s) \/ BidiReadErr(s)
    \/ BidiWritePrefix(s) \/ BidiWriteData(s) \/ BidiFlush(s)

\* The peer opens one uni stream and one bidi stream, on which it makes one
\* flushed write.
NextWorkers ==
    \/ \E s \in UniIds : (\A q \in UniIds : uni[q].st = "none")
                            /\ PeerOpenUni(s, UniPayload(s, net.uniLen))
    \/ \E s \in BidiIds : (\A q \in BidiIds : bidi[q].st = "none")
                             /\ PeerOpenBidi(s, "stream")
    \/ \E s \in BidiIds : bidi[s].written = <<>> /\ PeerWriteBidi(s)
    \/ \E s \in BidiIds : PeerFinBidi(s)
    \/ PeerEndWelcome("fin")
    \/ PeerClose
    \/ OpenWelcome
    \/ \E s \in UniIds : AcceptUni(s)
    \/ OpenUniReply
    \/ \E s \in BidiIds : AcceptBi(s)
    \/ LoopEnds
    \/ WelcomeStep
    \/ \E s \in UniIds : UniStep(s)
    \/ \E s \in BidiIds : BidiStep(s)

SpecWorkers == InitWorkers /\ [][NextWorkers]_vars

\* C21: the end of the fan-in loop cancels no spawned worker: the step that
\* ends the loop changes no worker and no stream; after handle_session has
\* returned, the state of a worker changes only by a step of that worker, and
\* every worker that has not returned (welcome, uni, bidi) can take its next
\* step, up to its own Ok or Err.
C21_WorkersNotCancelled ==
    /\ [](sess.pc = "ok" =>
            /\ WelcomeRunning => ENABLED WelcomeStep
            /\ \A s \in UniIds : UniRunning(s) => ENABLED UniStep(s)
            /\ \A s \in BidiIds : BidiRunning(s) => ENABLED BidiStep(s))
    /\ [][/\ (sess.pc # "ok" /\ sess'.pc = "ok") =>
                /\ sess'.welcome = sess.welcome /\ sess'.wcalls = sess.wcalls
                /\ uni' = uni /\ bidi' = bidi /\ replyUni' = replyUni
          /\ sess.pc = "ok" =>
                /\ sess'.welcome # sess.welcome => WelcomeStep
                /\ \A s \in UniIds : uni'[s] # uni[s] => UniStep(s)
                /\ \A s \in BidiIds : bidi'[s].wpc # bidi[s].wpc => BidiStep(s)]_vars

\* C21 witness: the loop ended while the welcome worker, a uni worker and a
\* bidi worker were running, none of them having written yet; afterwards the
\* uni worker wrote both chunks, the bidi worker echoed a read and saw the end
\* of its stream, the welcome worker drained its stream, and all returned Ok.
C21_Witness ==
    /\ sess.pc = "ok" /\ sess.running = 3
    /\ sess.welcome = "ok" /\ Len(sess.wcalls) = 3
    /\ \E s \in UniIds : uni[s].wpc = "ok" /\ Len(replyUni[uni[s].reply]) = 2
    /\ bidi[1].wpc = "ok" /\ Len(bidi[1].out) = 3

(***************************************************************************)
(* Properties of the responders of a request task (under Spec)             *)
(***************************************************************************)

\* What each Rest handler returns: content-type and byte length of its body.
RestType(f)  == IF f = "index" THEN "text/plain" ELSE "application/json"
RestBytes(f) ==
    CASE f = "index"    -> 18
      [] f = "health"   -> 39
      [] f = "api_info" -> 123

\* C23: a request task of a Rest handler calls the handler before it makes
\* any call on the stream; its calls are then, in this order and each only
\* after the one before succeeded, one send_response with status 200, the
\* handler's content-type and content-length = byte length of the handler's
\* body, one send_data carrying the whole body, and finish; it returns Ok
\* exactly when all three succeeded.
C23_RestOrder ==
    \A r \in Tasks : (Resolved(r) /\ task[r].invoked \in RestFns) =>
        LET f == task[r].invoked IN
        /\ task[r].pc = "rest_handler" => stream[r] = <<>> /\ task[r].resp = NoResp
        /\ task[r].pc # "rest_handler" => task[r].resp = CallRest(f)
        /\ IsPrefix(CallsOf(r),
                    <<Response(200, RestType(f), <<RestBytes(f)>>, <<>>),
                      SendData(Body(CallRest(f).body)), Finish>>)
        /\ FailureIsLast(r)
        /\ Count(r, "send_data") <= 1
        /\ task[r].pc = "ok" <=> (Len(stream[r]) = 3 /\ AllOk(r))

\* C23 witness: api_info was run and answered in full: head with its length,
\* the body in one send_data, finish.
C23_Witness ==
    /\ task[1].invoked = "api_info" /\ task[1].pc = "ok"
    /\ Ops(1) = <<"send_response", "send_data", "finish">> /\ AllOk(1)
    /\ stream[1][1].call.clen = <<Len(stream[1][2].call.data.text)>>
    /\ stream[1][1].call.status = 200

\* The last call on the stream of task r failed.
LastFailed(r) == stream[r] # <<>> /\ ~stream[r][Len(stream[r])].ok

\* C24: in the REST, the 404 and the Stream responders a failed stream call
\* (send_response, send_data or finish) ends the request task: the step of
\* the failed call is the step in which the task returns Err, the failed call
\* stays the last call on that stream (no retry, no later send_data, no
\* finish), and every call before it had succeeded.
C24_WriteFailureTerminal ==
    /\ [](\A r \in Tasks : Resolved(r) => FailureIsLast(r) /\ (LastFailed(r) <=> task[r].pc = "err"))
    /\ [][\A r \in Tasks :
             /\ (stream'[r] # stream[r] /\ LastFailed(r)') => task'[r].pc = "err"
             /\ LastFailed(r) =>
                   \/ stream'[r] = stream[r] /\ task'[r] = task[r]
                   \/ stream'[r] = <<>> /\ task'[r].pc = "handle_request"]_vars

\* C24 witness: time_stream sent its head and two frames, the third frame's
\* send_data failed, and the task returned Err with that call as its last.
C24_Witness ==
    /\ task[1].invoked = "time_stream" /\ task[1].pc = "err"
    /\ Ops(1) = <<"send_response", "send_data", "send_data", "send_data">>
    /\ stream[1][3].ok /\ ~stream[1][4].ok
    /\ stream[1][4].call.data = TimeEvent(3)

(***************************************************************************)
(* More properties of the dispatcher (under SpecConn)                      *)
(***************************************************************************)

\* The step is an accept call of connection c that yields no request: the
\* call is counted and the inbox is left as it was.
AcceptYieldsNone(c) ==
    /\ conn[c].pc = "accept"
    /\ conn'[c].accepts = conn[c].accepts + 1
    /\ conn'[c].inbox = conn[c].inbox

\* C25: when accept reports the graceful close (Ok(None), after the peer's
\* GOAWAY), that step ends the dispatcher loop and handle_connection returns
\* Ok with no error recorded, spawning nothing; once handle_connection has
\* returned, no accept call is made and it stays returned.
C25_GracefulClose ==
    [][\A c \in DOMAIN conn :
          /\ (AcceptYieldsNone(c) /\ conn[c].closed = "GoAway") =>
                /\ conn'[c].pc = "ok"
                /\ conn'[c].acceptErr = "none" /\ conn'[c].resolveErrs = conn[c].resolveErrs
                /\ task' = task /\ stream' = stream
          /\ Returned(c) =>
                /\ conn'[c].accepts = conn[c].accepts
                /\ conn'[c].pc = conn[c].pc]_vars

\* C25 witness: the loop accepted a request, then accept reported the
\* graceful close, with no request waiting, and handle_connection returned
\* Ok while the request's task was in mid-stream.
C25_Witness ==
    /\ conn[1].pc = "ok" /\ conn[1].closed = "GoAway" /\ ~conn[1].handed
    /\ conn[1].acceptErr = "none" /\ conn[1].accepts = 2
    /\ task[1].pc = "ts_sleep"
    /\ conn[1].inbox = <<>>

(***************************************************************************)
(* Properties of the welcome stream (under SpecDatagram)                   *)
(***************************************************************************)

\* The calls of send_welcome, in order.
WelcomeCalls ==
    <<[op |-> "write_all", bytes |-> "Welcome to HTTP/3 WebTransport server!"],
      [op |-> "shutdown", bytes |-> ""],
      [op |-> "read_to_end", bytes |-> ""]>>

\* C26: a session makes its one open_bi call before its loop handles any
\* event, and never again; when it succeeds the stream goes to one welcome
\* worker (when it fails there is no worker and no loop); the worker's calls
\* are, in this order and each only after the one before succeeded,
\* write_all of the welcome payload, shutdown, read_to_end; the read returns
\* Ok only once the peer has closed its send side, and the worker then ends;
\* while the peer keeps the stream open and the connection lives the read
\* does not return.
C26_WelcomeStream ==
    /\ [](/\ sess.pc \in {"open_welcome", "err"} =>
                sess.welcome = "none" /\ dgram.read = <<>> /\ dgram.sent = <<>>
          /\ sess.pc \in {"select", "open_uni", "ok"} => sess.welcome # "none"
          /\ IsPrefix([k \in DOMAIN sess.wcalls |-> sess.wcalls[k].call], WelcomeCalls)
          /\ \A k \in DOMAIN sess.wcalls : k < Len(sess.wcalls) => sess.wcalls[k].ok
          /\ sess.welcome = "ok" <=>
                (Len(sess.wcalls) = 3 /\ \A k \in 1..3 : sess.wcalls[k].ok)
          /\ sess.welcome = "ok" => net.welcome = "fin"
          /\ sess.welcome = "err" <=>
                (sess.wcalls # <<>> /\ ~sess.wcalls[Len(sess.wcalls)].ok)
          /\ sess.welcome = "read" =>
                (ENABLED WelcomeStep <=> net.welcome # "open" \/ net.closed))
    /\ [][/\ (sess.welcome = "none" /\ sess'.welcome # "none") =>
                sess.pc = "open_welcome" /\ sess'.pc = "select" /\ sess'.welcome = "write"
          /\ sess.pc # "open_welcome" => sess'.pc # "open_welcome"
          /\ sess.welcome \in {"ok", "err"} =>
                sess'.welcome = sess.welcome /\ sess'.wcalls = sess.wcalls]_vars

\* C26 witness: the welcome worker wrote, shut down and read to the end after
\* the peer closed its send side, and returned Ok, while the loop, which has
\* echoed a datagram meanwhile, is still running.
C26_Witness ==
    /\ sess.welcome = "ok" /\ Len(sess.wcalls) = 3
    /\ net.welcome = "fin" /\ ~net.closed
    /\ sess.pc = "select" /\ Len(dgram.read) = 1

(***************************************************************************)
(* Specification SpecFair: the fan-in loop under fair choice among its     *)
(* ready arms.  tokio::select! polls its branches in random order, so an   *)
(* arm that is ready again and again is eventually the one taken: strong   *)
(* fairness for each arm.  handle_session itself is scheduled: weak        *)
(* fairness for its open_bi.  The open_uni call awaited inside the uni arm  *)
(* completes when the peer grants stream credit, which is up to the peer   *)
(* (no fairness), or, with an error, when the connection has ended (weak   *)
(* fairness).                                                              *)
(***************************************************************************)

NextFair ==
    \/ \E d \in DgPayloads : PeerSendDatagram(d)
    \/ \E s \in UniIds : PeerOpenUni(s, UniPayload(s, net.uniLen))
    \/ \E s \in BidiIds, kind \in {"stream", "request"} : PeerOpenBidi(s, kind)
    \/ PeerClose
    \/ OpenWelcome
    \/ \E i \in 1..MaxDgrams : DatagramArm(i)
    \/ \E s \in UniIds : AcceptUni(s)
    \/ OpenUniReply
    \/ \E s \in BidiIds : AcceptBi(s)
    \/ LoopEnds

FairLoop ==
    /\ WF_vars(OpenWelcome)
    /\ SF_vars(\E i \in 1..MaxDgrams : DatagramArm(i))
    /\ SF_vars(\E s \in UniIds : AcceptUni(s))
    /\ SF_vars(\E s \in BidiIds : AcceptBi(s))
    /\ WF_vars(net.closed /\ OpenUniReply)

SpecFair == InitLoop /\ [][NextFair]_vars /\ FairLoop

\* handle_session has returned.
SessionEnded == sess.pc \in {"ok", "err"}

\* C27 as stated: under fair choice among the ready arms, a pending datagram
\* is eventually echoed, and a pending client-opened uni or bidi stream is
\* eventually accepted and given a worker, unless the loop ends first.
C27_AsStated ==
    /\ \A n \in 0..MaxDgrams :
          (net.dg # <<>> /\ Len(dgram.sent) = n) ~> (Len(dgram.sent) > n \/ SessionEnded)
    /\ \A s \in UniIds :
          (uni[s].st = "pending") ~> (uni[s].workers = 1 \/ SessionEnded)
    /\ \A s \in BidiIds :
          (bidi[s].st = "pending") ~> (bidi[s].workers = 1 \/ SessionEnded)

\* C28: once run serves, no step of a connection, a request task, the
\* session or a worker changes the Router: the map stays the one passed to
\* run, and every request is resolved against exactly that map.
C28_RouterReadOnly ==
    /\ [](/\ routes = ServedRoutes
          /\ \A r \in DOMAIN task : Resolved(r) =>
                task[r].invoked = Dispatch(RouterGet(ServedRoutes, task[r].path)).invoked)
    /\ [][routes' = routes /\ started']_vars

\* C28 witness: two requests of the connection for the same path were both
\* resolved to its handler and answered in full.
C28_Witness ==
    /\ task[1].path = "/health" /\ task[2].path = "/health"
    /\ task[1].invoked = "health" /\ task[2].invoked = "health"
    /\ task[1].pc = "ok" /\ task[2].pc = "ok"
    /\ conn[1].accepts = 2

(***************************************************************************)
(* Properties of the echo workers past the end of their streams (under     *)
(* SpecWorkers)                                                            *)
(***************************************************************************)

\* C29: a bidi echo worker leaves its read at the end of the inbound stream
\* (nothing left to read) only by returning; it returns Ok from its read, on
\* the zero-length read or on a read error, without a write for it, and it
\* returns Err in the step of its first failed write; once it has returned
\* it reads and writes nothing; the step in which it returns changes neither
\* the fan-in loop nor the welcome worker, nor any uni worker or reply stream.
C29_BidiWorkerEnd ==
    [][\A s \in BidiIds :
          /\ (bidi[s].wpc = "read" /\ bidi[s].inq = <<>> /\ bidi'[s].wpc # "read") =>
                bidi'[s].wpc = "ok"
          /\ (BidiRunning(s) /\ bidi'[s].wpc = "ok") =>
                /\ bidi[s].wpc = "read"
                /\ (bidi[s].inq = <<>> /\ bidi[s].fin) \/ net.closed
                /\ bidi'[s].out = bidi[s].out /\ bidi'[s].reads = bidi[s].reads
          /\ (bidi'[s].out # bidi[s].out /\ ~bidi'[s].out[Len(bidi'[s].out)].ok) =>
                bidi'[s].wpc = "err"
          /\ (BidiRunning(s) /\ bidi'[s].wpc = "err") =>
                /\ bidi[s].wpc \in {"write_prefix", "write_data", "flush"}
                /\ Len(bidi'[s].out) = Len(bidi[s].out) + 1
                /\ \A k \in DOMAIN bidi[s].out : bidi[s].out[k].ok
          /\ (BidiRunning(s) /\ ~BidiRunning(s)') =>
                /\ sess' = sess /\ dgram' = dgram /\ net' = net
                /\ uni' = uni /\ replyUni' = replyUni
                /\ \A q \in BidiIds \ {s} : bidi'[q] = bidi[q]
          /\ bidi[s].wpc \in {"ok", "err"} =>
                /\ bidi'[s].wpc = bidi[s].wpc
                /\ bidi'[s].out = bidi[s].out /\ bidi'[s].reads = bidi[s].reads
                /\ bidi'[s].cur = bidi[s].cur]_vars

\* C29 witness: a bidi worker echoed one read and then returned on a read
\* error (its peer had not closed the stream) while the loop was in its
\* select, a uni worker was between its chunks and the welcome worker was
\* reading.
C29_Witness ==
    /\ bidi[1].wpc = "ok" /\ ~bidi[1].fin /\ Len(bidi[1].out) = 3
    /\ sess.pc = "select" /\ sess.welcome = "read"
    /\ \E s \in UniIds : uni[s].wpc = "sleep" /\ uni[s].k = 2

\* The write_all calls made so far by uni worker s on its reply stream.
UniWrites(s) == replyUni[uni[s].reply]

\* read_to_end of uni worker s has failed: the worker returned Err before the
\* for loop.
UniReadFailed(s) == uni[s].wpc = "err" /\ uni[s].k = 0

\* C30: a uni echo worker has written nothing while it reads its inbound
\* stream; a write is made only with the whole of the inbound bytes in the
\* buffer; a worker whose read failed has returned without any write; the
\* step of the last chunk's write, if it succeeds, is the step in which the
\* worker returns Ok, and a worker that has returned writes no more.
C30_UniWorkerOrder ==
    /\ [](\A s \in UniIds : uni[s].st = "worker" =>
            /\ uni[s].wpc = "read" => UniWrites(s) = <<>> /\ uni[s].buf = <<>>
            /\ UniReadFailed(s) => UniWrites(s) = <<>>
            /\ UniWrites(s) # <<>> => uni[s].buf = uni[s].data /\ uni[s].k >= 1
            /\ uni[s].wpc = "ok" <=>
                  (/\ uni[s].k >= 1
                   /\ Len(UniWrites(s)) = (Len(uni[s].data) + 63) \div 64
                   /\ \A k \in DOMAIN UniWrites(s) : UniWrites(s)[k].ok))
    /\ [][\A s \in UniIds : uni[s].st = "worker" =>
             /\ UniWrites(s)' # UniWrites(s) =>
                   /\ uni[s].wpc = "write"
                   /\ Len(UniWrites(s)') = Len(UniWrites(s)) + 1
             /\ uni[s].wpc \in {"ok", "err"} =>
                   uni'[s] = uni[s] /\ UniWrites(s)' = UniWrites(s)]_vars

\* C30 witness: of two workers for streams of 129 bytes, one failed its read
\* and returned with nothing written; the other read to the end, wrote the
\* three chunks and returned Ok.
C30_Witness ==
    /\ net.uniLen = 129
    /\ UniReadFailed(1) /\ replyUni[uni[1].reply] = <<>>
    /\ uni[2].wpc = "ok" /\ Len(replyUni[uni[2].reply]) = 3

(***************************************************************************)
(* Properties of the request tasks past the end of the dispatcher loop     *)
(* (under SpecConn)                                                        *)
(***************************************************************************)

\* The dispatcher loop of connection c has ended: by Ok(None) or Err of
\* accept, or by the hand-over to a WebTransport session.
LoopOver(c) == conn[c].pc \in {"ok", "err", "wt_accept", "session"}

\* C31: the end of the dispatcher loop, by graceful close, by a connection
\* error or by the hand-over to a session, cancels no request task: the step
\* that ends the loop changes no task and no request stream; afterwards a
\* task changes only by a step of its own, and every task that has not
\* returned can take its next step, also while the session runs and after
\* handle_connection has returned.
C31_TasksNotCancelled ==
    /\ [](\A c \in DOMAIN conn : LoopOver(c) =>
             \A r \in RunningTasks : ENABLED TaskStep(r))
    /\ [][\A c \in DOMAIN conn :
             /\ (Dispatching(c) /\ ~Dispatching(c)') => task' = task /\ stream' = stream
             /\ LoopOver(c) =>
                   \A r \in DOMAIN task :
                       (task'[r] # task[r] \/ stream'[r] # stream[r]) => TaskStep(r)]_vars

\* C31 witness: the loop has ended by the hand-over and the session's fan-in
\* loop runs; the two request tasks, spawned before, have not returned: one
\* is in mid-stream, the other about to send its body, and both can step.
C31_Witness ==
    /\ conn[1].handed
    /\ conn[1].pc = "session" /\ sess.pc = "select"
    /\ RunningTasks = {1, 2}
    /\ task[1].pc = "ts_sleep" /\ task[1].i = 3
    /\ task[2].pc = "rest_send_data"
    /\ ENABLED TaskStep(1) /\ ENABLED TaskStep(2)

(***************************************************************************)
(* What the dispatcher's treatment of a request depends on (under SpecConn)*)
(***************************************************************************)

\* The dispatcher step of connection c on a resolved request: the loop
\* leaves "resolve" without a resolve error.
Dispatches(c) ==
    /\ conn[c].pc = "resolve" /\ conn[c].cur.hdr
    /\ conn'[c].pc # "resolve"
    /\ conn'[c].resolveErrs = conn[c].resolveErrs

\* C32: the dispatcher's treatment of a request depends on nothing but
\* (method = CONNECT and marker = webtransport) and, when that is false, the
\* path: a CONNECT with the marker goes to WebTransportSession::accept and no
\* task is spawned, whatever its path and whether or not the router holds a
\* route for it; any other request gets a task that holds its path, and the
\* handler the task invokes is the router's answer for that path alone, so
\* two requests with the same path and different methods get the same
\* handler.
C32_TreatmentDependsOn ==
    /\ [][\A c \in DOMAIN conn : Dispatches(c) =>
             IF conn[c].cur.method = "CONNECT" /\ conn[c].cur.protocol = "webtransport"
             THEN conn'[c].pc = "wt_accept" /\ task' = task /\ stream' = stream
             ELSE /\ conn'[c].pc = "accept"
                  /\ \E r \in FreeTasks :
                        /\ task'[r].pc = "handle_request"
                        /\ task'[r].path = conn[c].cur.path
                        /\ \A q \in DOMAIN task \ {r} : task'[q] = task[q]]_vars
    /\ [](\A r \in DOMAIN task : task[r].invoked # "none" =>
             task[r].invoked = Dispatch(RouterGet(ServedRoutes, task[r].path)).invoked)
    /\ [](\A r, q \in DOMAIN task :
             (task[r].invoked # "none" /\ task[q].invoked # "none"
              /\ task[r].path = task[q].path) => task[r].invoked = task[q].invoked)

\* C32 witness: a GET and a CONNECT without the marker, both for /health,
\* were both answered by the health handler, and a CONNECT with the marker for
\* the registered path /health is resolved: the dispatcher can only upgrade
\* it.
C32_Witness ==
    /\ task[1].path = "/health" /\ task[2].path = "/health"
    /\ task[1].method # task[2].method
    /\ task[1].invoked = "health" /\ task[2].invoked = "health"
    /\ task[1].pc = "ok" /\ task[2].pc = "rest_send_response"
    /\ conn[1].pc = "resolve" /\ conn[1].cur.hdr
    /\ conn[1].cur.method = "CONNECT" /\ conn[1].cur.protocol = "webtransport"
    /\ conn[1].cur.path = "/health"
    /\ ENABLED ConnConnect(1)
    /\ ~ENABLED (\E r \in DOMAIN task : ConnSpawn(1, r))

(***************************************************************************)
(* The dispatcher after the first WebTransport CONNECT (under SpecConn)    *)
(***************************************************************************)

\* C33: once the dispatcher has met a WebTransport CONNECT on a connection
\* it accepts no further inbound unit of it, whether
\* WebTransportSession::accept succeeds or fails: the accept count stands
\* still, what the peer sends afterwards stays where it arrived, and no task
\* is spawned. The connection gets at most one session: accept is left once,
\* either into the session or, on failure, into the return with no session
\* made, and a returned handle_connection stays returned.
C33_OneConnect ==
    /\ [](\A c \in DOMAIN conn : conn[c].handed => ~Dispatching(c))
    /\ [][\A c \in DOMAIN conn :
             /\ conn[c].handed =>
                   /\ conn'[c].handed
                   /\ conn'[c].accepts = conn[c].accepts
                   /\ Len(conn'[c].inbox) >= Len(conn[c].inbox)
                   /\ SubSeq(conn'[c].inbox, 1, Len(conn[c].inbox))
                        = [k \in DOMAIN conn[c].inbox |->
                             [conn[c].inbox[k] EXCEPT !.hdr = conn'[c].inbox[k].hdr]]
                   /\ \A r \in DOMAIN task : task[r].pc = "idle" => task'[r].pc = "idle"
                   /\ conn'[c].pc = "wt_accept" => conn[c].pc = "wt_accept"
                   /\ conn'[c].pc = "session" => conn[c].pc \in {"wt_accept", "session"}
             /\ (conn[c].pc = "wt_accept" /\ conn'[c].pc # "wt_accept") =>
                   \/ conn'[c].pc = "session" /\ sess.pc = "none" /\ sess'.pc # "none"
                   \/ conn'[c].pc = "ok" /\ sess.pc = "none" /\ sess' = sess
             /\ Returned(c) => conn'[c].pc = conn[c].pc]_vars

\* C33 witness, accept failed: handle_connection has returned with no session
\* ever made, while an ordinary request and a second WebTransport CONNECT,
\* both with their header blocks, wait unaccepted.
C33_Witness ==
    /\ conn[1].handed /\ conn[1].pc = "ok" /\ sess.pc = "none"
    /\ conn[1].closed = "no"
    /\ conn[1].accepts = 1 /\ conn[1].units = 3
    /\ Len(conn[1].inbox) = 2
    /\ \A k \in 1..2 : conn[1].inbox[k].hdr
    /\ ~IsWebTransportConnect(conn[1].inbox[1])
    /\ IsWebTransportConnect(conn[1].inbox[2])

(***************************************************************************)
(* A failed open of the welcome stream (under SpecArms)                    *)
(***************************************************************************)

\* handle_session up to the spawn of its workers: the peer's traffic and the
\* arms of the fan-in loop.
SpecArms == InitLoop /\ [][NextFair]_vars

\* C34: when session.open_bi fails, handle_session returns the error before
\* the fan-in loop starts: open_bi is left either into the loop with the
\* welcome worker spawned or into the Err return with none; as long as no
\* welcome worker was spawned no datagram was read or echoed, no
\* client-opened stream was accepted and no reply stream was opened; and
\* the returned session takes no further step.
C34_WelcomeOpenFails ==
    /\ [](sess.welcome = "none" =>
             /\ sess.pc \in {"open_welcome", "err"}
             /\ dgram.read = <<>> /\ dgram.sent = <<>>
             /\ \A s \in UniIds : uni[s].st \in {"none", "pending"} /\ uni[s].workers = 0
             /\ \A s \in BidiIds : bidi[s].st \in {"none", "pending"} /\ bidi[s].workers = 0
             /\ sess.opened = 0 /\ sess.endedBy = "none")
    /\ [][(sess.pc = "open_welcome" /\ sess' # sess) =>
             \/ sess'.pc = "select" /\ sess'.welcome = "write"
             \/ sess'.pc = "err" /\ sess'.welcome = "none"]_vars
    /\ [][sess.pc = "err" =>
             /\ sess' = sess /\ dgram' = dgram /\ replyUni' = replyUni
             /\ \A s \in UniIds : uni'[s].st \in {"none", "pending"}
             /\ \A s \in BidiIds : bidi'[s].st \in {"none", "pending"}]_vars

\* C34 witness: open_bi failed on an open connection; two datagrams, a uni
\* stream and a bidi stream of the client wait, unread and unaccepted.
C34_Witness ==
    /\ sess.pc = "err" /\ sess.welcome = "none" /\ ~net.closed
    /\ Len(net.dg) = 2 /\ dgram.read = <<>> /\ dgram.sent = <<>>
    /\ uni[1].st = "pending" /\ bidi[1].st = "pending" /\ bidi[1].kind = "stream"

(***************************************************************************)
(* Failures inside the arms of the fan-in loop (under SpecArms)            *)
(***************************************************************************)

\* The step is a datagram arm whose send_datagram call failed.
SendFailedStep ==
    /\ Len(dgram'.sent) > Len(dgram.sent)
    /\ ~dgram'.sent[Len(dgram'.sent)].ok

\* The step is a uni arm whose open_uni(id) failed.
OpenUniFailedStep ==
    /\ sess.pc = "open_uni"
    /\ uni'[sess.cur].st = "dropped"

\* C35: a failed send of an echo datagram and a failed open of the reply uni
\* stream do not end the fan-in loop. The step of the failure leaves the loop
\* at its select, where every waiting datagram can be read and every waiting
\* client-opened stream accepted. The failed datagram is not sent again:
\* there is one send call per datagram read, with the payload read. The
\* accepted uni stream whose reply stream could not be opened never gets a
\* worker or a reply stream.
C35_ArmFailuresKeepLoop ==
    /\ [][SendFailedStep =>
             /\ sess.pc = "select" /\ sess' = sess
             /\ Len(dgram'.sent) = Len(dgram.sent) + 1
             /\ Len(dgram'.read) = Len(dgram.read) + 1]_vars
    /\ [][OpenUniFailedStep =>
             /\ sess'.pc = "select" /\ sess'.endedBy = "none"
             /\ sess'.opened = sess.opened
             /\ replyUni' = replyUni]_vars
    /\ [][\A s \in UniIds : uni[s].st = "dropped" => uni'[s] = uni[s]]_vars
    /\ [](\A s \in UniIds : uni[s].st = "dropped" =>
             uni[s].workers = 0 /\ uni[s].wpc = "none" /\ uni[s].reply = 0)
    /\ [](/\ Len(dgram.sent) = Len(dgram.read)
          /\ \A k \in DOMAIN dgram.sent : dgram.sent[k].payload = dgram.read[k])
    /\ [](sess.pc = "select" =>
             /\ \A i \in DOMAIN net.dg : ENABLED DatagramArm(i)
             /\ \A s \in UniIds : uni[s].st = "pending" => ENABLED AcceptUni(s)
             /\ \A s \in BidiIds : bidi[s].st = "pending" => ENABLED AcceptBi(s))

\* C35 witness: the send of the first datagram failed and the reply stream
\* of the first uni stream could not be opened; afterwards the loop echoed a
\* second datagram, gave the second uni stream its worker and accepted a
\* bidi stream, and it is still at its select.
C35_Witness ==
    /\ sess.pc = "select" /\ ~net.closed
    /\ Len(dgram.sent) = 2 /\ ~dgram.sent[1].ok /\ dgram.sent[2].ok
    /\ dgram.sent[1].payload # dgram.sent[2].payload
    /\ uni[1].st = "dropped" /\ uni[1].workers = 0
    /\ uni[2].st = "worker" /\ uni[2].reply = 1
    /\ bidi[1].st = "worker"

(***************************************************************************)
(* The writes and the delays of echo_uni (under SpecUni)                   *)
(***************************************************************************)

\* ceil(n / 64)
CeilChunks(n) == IF n = 0 THEN 0 ELSE ((n - 1) \div ChunkSize) + 1

\* C36: a uni echo worker that has returned Ok for an inbound stream of n
\* bytes has made exactly ceil(n / 64) writes, each of 64 bytes except the
\* last, which carries the n - 64 * (ceil(n / 64) - 1) remaining bytes, from
\* 1 to 64; for n = 0 it has made no write and no delay. Exactly one delay
\* precedes every write, the first included: a write is made with one delay
\* more than writes behind it, and the delays counted never differ from the
\* writes made by more than that one.
C36_UniChunksAndDelays ==
    /\ [](\A s \in UniIds : (uni[s].st = "worker" /\ uni[s].wpc = "ok") =>
             LET n == Len(uni[s].data)
                 c == CeilChunks(n)
                 w == UniWrites(s)
             IN  /\ Len(w) = c
                 /\ uni[s].sleeps = c
                 /\ \A j \in 1..c : w[j].ok
                 /\ \A j \in 1..(c - 1) : Len(w[j].bytes) = ChunkSize
                 /\ c > 0 => /\ Len(w[c].bytes) = n - ChunkSize * (c - 1)
                             /\ Len(w[c].bytes) \in 1..ChunkSize)
    /\ [](\A s \in UniIds : uni[s].st = "worker" =>
             uni[s].sleeps = Len(UniWrites(s)) + (IF uni[s].wpc = "write" THEN 1 ELSE 0))
    /\ [][\A s \in UniIds :
             (uni[s].st = "worker" /\ Len(UniWrites(s)') > Len(UniWrites(s))) =>
                 /\ Len(UniWrites(s)') = Len(UniWrites(s)) + 1
                 /\ uni[s].sleeps = Len(UniWrites(s)) + 1
                 /\ uni'[s].sleeps = uni[s].sleeps]_vars

\* C36 witness: a worker has returned Ok for 129 inbound bytes after three
\* delays and three writes, of 64, 64 and 1 bytes.
C36_Witness ==
    \E s \in UniIds :
        /\ uni[s].st = "worker" /\ uni[s].wpc = "ok"
        /\ Len(uni[s].data) = 2 * ChunkSize + 1
        /\ uni[s].sleeps = 3
        /\ [j \in 1..3 |-> Len(UniWrites(s)[j].bytes)] = <<ChunkSize, ChunkSize, 1>>

(***************************************************************************)
(* echo_bidi on an inbound stream longer than its buffer                   *)
(***************************************************************************)

MaxBigReads == 3    \* non-empty reads of the worker

\* One flushed write of the client that does not fit the worker's buffer.
BigMsg == [i \in 1..(BufSize + 1) |-> i % 256]

PeerWriteBidiBig(s) ==
    /\ ~net.closed
    /\ bidi[s].st \in {"pending", "worker"} /\ bidi[s].kind = "stream"
    /\ ~bidi[s].fin
    /\ bidi[s].written = <<>>
    /\ bidi' = [bidi EXCEPT ![s].written = Append(@, BigMsg), ![s].inq = @ \o BigMsg]
    /\ UNCHANGED <<sess, net, dgram, uni, replyUni>>
    /\ WtFrame

\* What a read returns here: one byte, two, or all that fits the buffer.
BigReadSizes(s) == {1, 2, Min(Len(bidi[s].inq), BufSize)} \cap 1..Len(bidi[s].inq)

\* The peer opens one bidi stream, writes BigMsg on it and closes its send
\* side.
NextBidiBig ==
    \/ \E s \in BidiIds : (\A q \in BidiIds : bidi[q].st = "none") /\ PeerOpenBidi(s, "stream")
    \/ \E s \in BidiIds : PeerWriteBidiBig(s)
    \/ \E s \in BidiIds : PeerFinBidi(s)
    \/ OpenWelcome
    \/ \E s \in BidiIds : AcceptBi(s)
    \/ \E s \in BidiIds : \E n \in BigReadSizes(s) :
          Len(bidi[s].reads) < MaxBigReads /\ BidiRead(s, n)
    \/ \E s \in BidiIds :
          \/ BidiReadEof(s)
          \/ BidiWritePrefix(s) \/ BidiWriteData(s) \/ BidiFlush(s)

SpecBidiBig == InitBidi /\ [][NextBidiBig]_vars

\* The bytes the worker of bidi stream s has put on its send side.
BidiOutput(s) == Flatten([k \in DOMAIN bidi[s].out |->
                            IF bidi[s].out[k].ok THEN bidi[s].out[k].bytes ELSE <<>>])

\* "[echo] " + the bytes of each read, concatenated in read order.
EchoOf(reads) == Flatten([j \in DOMAIN reads |-> EchoPrefix \o reads[j]])

\* The output with one prefix removed per read, the reads having the lengths
\* lens.
RECURSIVE StripPrefixes(_, _)
StripPrefixes(bytes, lens) ==
    IF lens = <<>> THEN bytes
    ELSE SubSeq(bytes, Len(EchoPrefix) + 1, Len(EchoPrefix) + Head(lens))
         \o StripPrefixes(SubSeq(bytes, Len(EchoPrefix) + Head(lens) + 1, Len(bytes)),
                          Tail(lens))

AllCallsOk(s) == \A k \in DOMAIN bidi[s].out : bidi[s].out[k].ok

\* C37: however the inbound bytes of a bidi stream are cut into reads, each
\* of 1 to 4096 bytes, the output of the echo worker, its writes succeeding,
\* is the concatenation in read order of "[echo] " followed by the bytes of
\* that read; a read starts only when every earlier pair was written and
\* flushed; the output without one prefix per read is the bytes read, which
\* for a worker that returned at the end of the stream are exactly the bytes
\* the client wrote; no write call carries more than 4096 bytes.
C37_BidiEchoBySegments ==
    /\ [](\A s \in BidiIds : bidi[s].st = "worker" =>
             /\ \A j \in DOMAIN bidi[s].reads : Len(bidi[s].reads[j]) \in 1..4096
             /\ \A k \in DOMAIN bidi[s].out : Len(bidi[s].out[k].bytes) <= 4096
             /\ Flatten(bidi[s].reads) \o bidi[s].inq = Flatten(bidi[s].written)
             /\ (AllCallsOk(s) /\ bidi[s].wpc \in {"read", "ok"}) =>
                   /\ BidiOutput(s) = EchoOf(bidi[s].reads)
                   /\ StripPrefixes(BidiOutput(s),
                                    [j \in DOMAIN bidi[s].reads |-> Len(bidi[s].reads[j])])
                        = Flatten(bidi[s].reads)
                   /\ (bidi[s].wpc = "ok" /\ bidi[s].inq = <<>>) =>
                         StripPrefixes(BidiOutput(s),
                                       [j \in DOMAIN bidi[s].reads |-> Len(bidi[s].reads[j])])
                          = Flatten(bidi[s].written))
    /\ [][\A s \in BidiIds : Len(bidi'[s].reads) > Len(bidi[s].reads) =>
             /\ Len(bidi[s].out) = 3 * Len(bidi[s].reads)
             /\ AllCallsOk(s)
             /\ \A j \in DOMAIN bidi[s].reads :
                   /\ bidi[s].out[3 * j - 2] = WriteCall(EchoPrefix, TRUE)
                   /\ bidi[s].out[3 * j - 1] = WriteCall(bidi[s].reads[j], TRUE)
                   /\ bidi[s].out[3 * j] = FlushCall(TRUE)]_vars

\* C37 witness: the client's one write of 4097 bytes was read as 4096 bytes
\* and then 1 byte; the worker answered with two replies and returned at the
\* end of the stream.
C37_Witness ==
    \E s \in BidiIds :
        /\ bidi[s].st = "worker" /\ bidi[s].wpc = "ok" /\ bidi[s].inq = <<>>
        /\ Len(bidi[s].written) = 1 /\ Len(bidi[s].written[1]) = BufSize + 1
        /\ [j \in DOMAIN bidi[s].reads |-> Len(bidi[s].reads[j])] = <<BufSize, 1>>
        /\ AllCallsOk(s) /\ Len(bidi[s].out) = 6
        /\ Len(BidiOutput(s)) = BufSize + 1 + 2 * Len(EchoPrefix)

(***************************************************************************)
(* Part 5: the browser application App (web/src/app.rs)                    *)
(***************************************************************************)

MaxConnects == 2    \* clicks on Connect
MaxSends    == 1    \* messages sent with Send

ConnectTasks == 1..MaxConnects
SendTasks    == 1..MaxSends

\* What parse_hex and the length test make of the certificate hash field.
CertHashes == {"empty", "valid", "not_32_bytes", "not_hex"}

\* The signals connected and has_stream, the slots client and stream (0 for
\* None; the transport of connect task t and the stream opened on it are
\* named t), the futures spawned by connect (ctask) and by send_message
\* (stask), and the transports close() was called on.
\* afterDisconnect: disconnect has run and Connect was not clicked since.
NewApp ==
    [connected |-> FALSE, has_stream |-> FALSE, client |-> 0, stream |-> 0,
     status |-> "Disconnected",
     ctask |-> [t \in ConnectTasks |-> "idle"],
     stask |-> [k \in SendTasks |-> [pc |-> "idle", s |-> 0]],
     closed |-> {},
     afterDisconnect |-> FALSE]

AppFrame == UNCHANGED httpVars /\ UNCHANGED wtVars /\ UNCHANGED <<conn, endpoint>>

\* on:click=connect, enabled while connected is false: the spawned future
\* sets the status, returns on a certificate hash that is not 32 bytes of
\* hex, and otherwise awaits WebTransportClient::connect.
Connect(t, hash) ==
    /\ ~app.connected
    /\ app.ctask[t] = "idle" /\ \A q \in ConnectTasks : q < t => app.ctask[q] # "idle"
    /\ app' = [app EXCEPT !.ctask[t] = IF hash \in {"empty", "valid"} THEN "connect"
                                       ELSE "done",
                          !.status = IF hash \in {"empty", "valid"} THEN "Connecting..."
                                     ELSE "Connection failed",
                          !.afterDisconnect = FALSE]
    /\ AppFrame

\* WebTransportClient::connect(..).await: Ok(c) sets connected, stores the
\* client and goes on to c.open_bidi_stream().await; Err(e) sets the status.
ConnectReady(t, ok) ==
    /\ app.ctask[t] = "connect"
    /\ app' = IF ok
              THEN [app EXCEPT !.connected = TRUE, !.client = t, !.status = "Connected",
                               !.ctask[t] = "open_bidi_stream"]
              ELSE [app EXCEPT !.status = "Connection failed", !.ctask[t] = "done"]
    /\ AppFrame

\* c.open_bidi_stream().await: Ok(s) stores the stream, sets has_stream and
\* goes on to s.recv().await; Err(e) adds a message. A transport that was
\* closed opens no stream.
OpenBidiStream(t, ok) ==
    /\ app.ctask[t] = "open_bidi_stream"
    /\ ok => t \notin app.closed
    /\ app' = IF ok
              THEN [app EXCEPT !.stream = t, !.has_stream = TRUE, !.ctask[t] = "recv"]
              ELSE [app EXCEPT !.ctask[t] = "done"]
    /\ AppFrame

\* s.recv().await of the welcome message: Ok or Err, a message is added.
ConnectRecv(t) ==
    /\ app.ctask[t] = "recv"
    /\ app' = [app EXCEPT !.ctask[t] = "done"]
    /\ AppFrame

\* on:click=disconnect, enabled while connected is true.
Disconnect ==
    /\ app.connected
    /\ app' = [app EXCEPT !.closed = IF app.client # 0 THEN @ \cup {app.client} ELSE @,
                          !.client = 0, !.stream = 0,
                          !.connected = FALSE, !.has_stream = FALSE,
                          !.status = "Disconnected",
                          !.afterDisconnect = TRUE]
    /\ AppFrame

\* send_message with a non-empty input, enabled while has_stream is true:
\* the stream is cloned out of its slot and the spawned future sends on the
\* clone, or adds "Not connected".
SendMessage(k) ==
    /\ app.has_stream
    /\ app.stask[k].pc = "idle"
    /\ app' = [app EXCEPT !.stask[k] = [pc |-> IF app.stream # 0 THEN "send" ELSE "done",
                                        s |-> app.stream]]
    /\ AppFrame

\* s.send(msg.as_bytes()).await: Err returns, Ok goes on to s.recv().await
SendDone(k, ok) ==
    /\ app.stask[k].pc = "send"
    /\ ok => app.stask[k].s \notin app.closed
    /\ app' = [app EXCEPT !.stask[k].pc = IF ok THEN "recv" ELSE "done"]
    /\ AppFrame

\* s.recv().await of the echo: Ok or Err, a message is added.
SendRecv(k) ==
    /\ app.stask[k].pc = "recv"
    /\ app' = [app EXCEPT !.stask[k].pc = "done"]
    /\ AppFrame

InitApp ==
    /\ InitHttpServing /\ InitWtIdle
    /\ conn = <<>>
    /\ endpoint = [pc |-> "none"]
    /\ app = NewApp

NextApp ==
    \/ \E t \in ConnectTasks, hash \in CertHashes : Connect(t, hash)
    \/ \E t \in ConnectTasks, ok \in BOOLEAN : ConnectReady(t, ok)
    \/ \E t \in ConnectTasks, ok \in BOOLEAN : OpenBidiStream(t, ok)
    \/ \E t \in ConnectTasks : ConnectRecv(t)
    \/ Disconnect
    \/ \E k \in SendTasks : SendMessage(k)
    \/ \E k \in SendTasks, ok \in BOOLEAN : SendDone(k, ok)
    \/ \E k \in SendTasks : SendRecv(k)

SpecApp == InitApp /\ [][NextApp]_vars

\* C38 as stated: has_stream is true only while connected is true, and after
\* disconnect has run the client and stream slots stay empty and has_stream
\* false until Connect is clicked again.
C38_AsStated ==
    /\ app.has_stream => app.connected
    /\ app.afterDisconnect => app.client = 0 /\ app.stream = 0 /\ ~app.has_stream

====
